---- MODULE Spec2Model ----
(***************************************************************************)
(* A model of parts of the wazero runtime: the descriptor table of         *)
(* internal/sys (FSContext), the readdir cursors of internal/sysfs         *)
(* (sliceReaddir, concatReaddir, windowedReaddir), the non-blocking reader *)
(* (nbreader), poll_oneoff, select on Windows, the TCP listeners, opening  *)
(* through a filesystem, the ARM64 relocations and the calls they resolve,  *)
(* closing a socket file, the labels of wazeroir, writing to a TCP         *)
(* connection, the handle sets of select on Windows, positioned reads and  *)
(* utimens.                                                                *)
(*                                                                         *)
(* The specifications share the module, one per subsystem; each leaves the *)
(* variables of the others at their initial values:                        *)
(*   SpecFS       the descriptor table                                     *)
(*   SpecReaddir  one readdir cursor as returned by LookupReaddir          *)
(*   SpecNb       one nbreader with its background goroutine               *)
(*   SpecPoll     one call of pollOneoff                                   *)
(*   SpecSelect   one call of pollNamedPipes or syscall_select             *)
(*   SpecSock     SockAccept on the listeners of a descriptor table        *)
(*   SpecOpen     FSContext.OpenFile through a filesystem                  *)
(*   SpecReloc    a module compiled and its relocations resolved           *)
(*   SpecCall     one call resolved by ResolveRelocations and then run     *)
(*   SpecConn     Close and Shutdown on one socket file                    *)
(*   SpecLabel    Label.ID of two labels                                   *)
(*   SpecDesc     the descriptor table with the readdir cursors kept for   *)
(*                its descriptors                                          *)
(*   SpecSkip     windowedReaddir.Skip, statement by statement, and        *)
(*                SpecSkipFair, in which a call that has begun runs on     *)
(*   SpecWrite    tcpConnFile.Write on one connection                      *)
(*   SpecFdSet    Set, Clear and Zero on one FdSet                         *)
(*   SpecPread    fsFile.Read and fsFile.Pread on one file                 *)
(*   SpecUtimens  utimens on a file, a symbolic link and a missing path    *)
(***************************************************************************)
EXTENDS Integers, Sequences, FiniteSets, TLC

VARIABLES
    \* ---- FSContext (src/unnamed/part_005) ----
    openedFiles,   \* FSContext.openedFiles: descriptor -> *FileEntry
    readdirs,      \* FSContext.readdirs: descriptor -> the File the cursor was made for
    files,         \* every fsapi.File created so far: its type and how often Close was invoked
    ctxClosed,     \* FSContext.Close has run
    config,        \* what NewFSContext was given
    last,          \* the last call on the context and what it returned
    \* ---- the readdir cursor of one directory (src/unnamed/part_000) ----
    dirSize,       \* number of entries of the directory, in its backing order 1..dirSize
    first,         \* concatReaddir.first: the sliceReaddir of "." and ".."
    second,        \* concatReaddir.second: what File.Readdir returned
    current,       \* concatReaddir.current: "first" or "second"
    rdLast,        \* the last call on the cursor and what it returned
    \* what a reader of the cursor has seen since it last (re)started reading forward
    origin,        \* how the forward read began: "new", "rewind0" or "other"
    expect,        \* the call a forward read makes next: "peek", "advance" or "done"
    seen,          \* the entries peeked so far by a read from the start
    prevCookie,    \* Cookie() at the latest successful Peek of the forward read, or -1
    \* ---- one nbreader, its caller and its background task (src/unnamed/part_000) ----
    pcR,           \* where the caller is in Read: "idle", "send1", "select" or "send2"
    pcA,           \* where readAsync is: "recv", "peek" or "send"
    lenP,          \* len(p) of the Read in progress
    msg,           \* readAsync's m, the req it received last
    rsp,           \* the resp readAsync has made and is sending
    rr,            \* the resp the Read in progress received
    arrived,       \* bytes the underlying reader has produced so far
    eof,           \* the underlying reader has reached its end
    consumed,      \* bytes taken out of the bufio.Reader
    reads,         \* Read calls made so far
    closed,        \* nbreader.Close has closed rresp and rreq
    nbLast,        \* the last Read that returned: what was ready at the call, what it returned
    \* ---- one call of pollOneoff (poll.go, in src/.github/workflows/examples.yaml) ----
    subs,          \* the subscriptions read from `in`, in order
    stdin,         \* the file at the descriptor the fd subscriptions name
    pcP,           \* where pollOneoffFn is: "loop", "recv" or "returned"
    nextSub,       \* the loop's i + 1: the subscription processEvent is given next
    tasks,         \* the goroutine started for each subscription
    now,           \* time since the call
    outBuf,        \* the event records at `out`, 32 bytes each
    nevents,       \* the count written at result.nevents
    pollRet,       \* what pollOneoffFn returned and the subscription whose value it received
    \* ---- one call of pollNamedPipes or syscall_select (src/unnamed/part_004,
    \*      src/internal/sysfs/select_windows.go) ----
    build,         \* which of the two files is built
    selFn,         \* the function called: "pollNamedPipes" or "syscall_select"
    nfds,          \* syscall_select's n
    duration,      \* the duration or timeout, NilDuration for nil
    pipes,         \* the handles of the read set's regular part, in order: what a peek finds
    pipes0,        \* pipes as they were at the call
    dataAt,        \* when a pipe of the set first had data, NoData before
    rCount,        \* Count() of the read set's regular part
    cancelled,     \* ctx is done
    selNow,        \* time since the call
    nextTick,      \* when the ticker emits next
    pcS,           \* where the call is: "start", "select", "sleep" or "returned"
    selRet,        \* what the call returned
    \* ---- the TCP listeners of the FSContext (src/internal/sysfs/sock_windows.go) ----
    nonblocking,   \* the listener files whose nonblock field is set
    pending,       \* connections waiting to be accepted, by listener file
    accepts,       \* SockAccept calls made
    acceptIn,      \* what the last SockAccept found at sockFD
    \* ---- opening through a filesystem (src/unnamed/part_000) ----
    openFlag,      \* the flag of the last FSContext.OpenFile
    fsOpens,       \* how often the backing filesystem was asked to open
    opens,         \* FSContext.OpenFile calls made
    \* ---- ARM64 relocations (src/unnamed/part_007) ----
    rBuild,            \* which version of ResolveRelocations is built
    nFuncs,            \* functions of the module
    refToBinaryOffset, \* the offset of each compiled function in the binary
    totalSize,         \* size of the binary so far
    relocations,       \* the RelocationInfo of each function's call
    sites,             \* what ResolveRelocations wrote for each relocation
    pcL,               \* "compile" or "done"
    \* ---- one call resolved and run (src/unnamed/part_006, part_007) ----
    cVersion,   \* which version of ResolveRelocations and encodeTrampoline is built
    callSite,   \* offset of the call
    calleeAt,   \* offset of the callee
    tOffset,   \* r.TrampolineOffset
    code,   \* the instructions of the binary, by offset
    pc,   \* offset of the instruction to run
    lr,   \* the link register, as an offset
    tmpReg,   \* the 16-bit parts of tmpReg
    phase,   \* "link", "run" or "halt"
    steps,   \* instructions run
    thru,   \* the call went into the trampoline on its way to the callee
    rets,  \* returns run
    \* ---- one socket file (src/unnamed/part_000, src/internal/sysfs/sock_windows.go) ----
    sKind,   \* the type of the socket file
    sock,   \* the socket file and its OS socket
    closeCalls,   \* Close and Shutdown(SHUT_RDWR) calls made
    connLast,   \* what the last call returned
    closeRet,  \* what the last Close or Shutdown(SHUT_RDWR) returned
    \* ---- labels of wazeroir ----
    labelA,   \* a label
    labelB,   \* another label
    labelIDs,  \* their IDs, once taken
    \* ---- windowedReaddir.Skip (src/unnamed/part_000) ----
    skSize,   \* entries in the directory
    skDir,   \* the windowedReaddir
    skEnd,   \* end of Skip
    skErr,   \* err of Skip
    skPc,  \* "idle", or the statement of Skip to run: "test" or "advance"
    \* ---- tcpConnFile.Write (src/unnamed/part_000) ----
    tcClosed,   \* tcpConnFile.closed
    tcSent,   \* bytes written to the socket
    tcWrites,   \* Write calls made
    tcLast,  \* the last call, what syscall.Write returned in it and what it returned
    \* ---- platform.FdSet on Windows (src/unnamed/part_012) ----
    fdSet,   \* an FdSet: its sockets and its regular handles
    fdLast,  \* the last call on it
    \* ---- fsFile.Pread (src/unnamed/part_000) ----
    prKind,   \* what the fs.File implements
    prCanSeek,   \* whether its Seek works
    prSize,   \* the length of the file
    prPos,   \* its read position
    prLast,  \* the last call and its result
    \* ---- utimens (src/internal/platform/utimes_linux.go, src/internal/sysfs/futimens_darwin.go) ----
    utOS,   \* the platform built for
    utTimes,   \* the timestamps of the file and of the link
    utLast   \* the last call and the flags it passed

fsVars == <<openedFiles, readdirs, files, ctxClosed, config, last>>

rdVars == <<dirSize, first, second, current, rdLast, origin, expect, seen, prevCookie>>

nbVars == <<pcR, pcA, lenP, msg, rsp, rr, arrived, eof, consumed, reads, closed, nbLast>>

pollVars == <<subs, stdin, pcP, nextSub, tasks, now, outBuf, nevents, pollRet>>

selVars == <<build, selFn, nfds, duration, pipes, pipes0, dataAt, rCount, cancelled, selNow,
             nextTick, pcS, selRet>>

sockVars == <<nonblocking, pending, accepts, acceptIn>>

openVars == <<openFlag, fsOpens, opens>>

relocVars == <<rBuild, nFuncs, refToBinaryOffset, totalSize, relocations, sites, pcL>>

callVars == <<cVersion, callSite, calleeAt, tOffset, code, pc, lr, tmpReg, phase, steps, thru, rets>>

connVars == <<sKind, sock, closeCalls, connLast, closeRet>>

labelVars == <<labelA, labelB, labelIDs>>

skipVars == <<skSize, skDir, skEnd, skErr, skPc>>

writeVars == <<tcClosed, tcSent, tcWrites, tcLast>>

fdSetVars == <<fdSet, fdLast>>

preadVars == <<prKind, prCanSeek, prSize, prPos, prLast>>

utimensVars == <<utOS, utTimes, utLast>>

vars == <<fsVars, rdVars, nbVars, pollVars, selVars, sockVars, openVars, relocVars, callVars, connVars, labelVars, skipVars, writeVars, fdSetVars, preadVars, utimensVars>>

\* What each subsystem leaves alone.
notFS == <<utimensVars, preadVars, fdSetVars, writeVars, skipVars, labelVars, connVars, callVars, relocVars, openVars, rdVars, nbVars, pollVars, selVars, sockVars>>
notReaddir == <<utimensVars, preadVars, fdSetVars, writeVars, skipVars, labelVars, connVars, callVars, relocVars, openVars, fsVars, nbVars, pollVars, selVars, sockVars>>
notNb == <<utimensVars, preadVars, fdSetVars, writeVars, skipVars, labelVars, connVars, callVars, relocVars, openVars, fsVars, rdVars, pollVars, selVars, sockVars>>
notPoll == <<utimensVars, preadVars, fdSetVars, writeVars, skipVars, labelVars, connVars, callVars, relocVars, openVars, fsVars, rdVars, nbVars, selVars, sockVars>>
notSel == <<utimensVars, preadVars, fdSetVars, writeVars, skipVars, labelVars, connVars, callVars, relocVars, openVars, fsVars, rdVars, nbVars, pollVars, sockVars>>
notSock == <<utimensVars, preadVars, fdSetVars, writeVars, skipVars, labelVars, connVars, callVars, relocVars, openVars, rdVars, nbVars, pollVars, selVars>>
notOpen == <<utimensVars, preadVars, fdSetVars, writeVars, skipVars, labelVars, connVars, callVars, relocVars, rdVars, nbVars, pollVars, selVars, sockVars>>
notReloc == <<utimensVars, preadVars, fdSetVars, writeVars, skipVars, labelVars, connVars, callVars, fsVars, rdVars, nbVars, pollVars, selVars, sockVars, openVars>>
notCall == <<utimensVars, preadVars, fdSetVars, writeVars, skipVars, labelVars, connVars, fsVars, rdVars, nbVars, pollVars, selVars, sockVars, openVars, relocVars>>
notConn == <<utimensVars, preadVars, fdSetVars, writeVars, skipVars, labelVars, fsVars, rdVars, nbVars, pollVars, selVars, sockVars, openVars, relocVars, callVars>>
notLabel == <<utimensVars, preadVars, fdSetVars, writeVars, skipVars, fsVars, rdVars, nbVars, pollVars, selVars, sockVars, openVars, relocVars, callVars, connVars>>
notSkip == <<utimensVars, preadVars, fdSetVars, writeVars, fsVars, rdVars, nbVars, pollVars, selVars, sockVars, openVars, relocVars, callVars, connVars, labelVars>>
notWrite == <<utimensVars, preadVars, fdSetVars, fsVars, rdVars, nbVars, pollVars, selVars, sockVars, openVars, relocVars, callVars, connVars, labelVars, skipVars>>
notFdSet == <<utimensVars, preadVars, fsVars, rdVars, nbVars, pollVars, selVars, sockVars, openVars, relocVars, callVars, connVars, labelVars, skipVars, writeVars>>
notPread == <<utimensVars, fsVars, rdVars, nbVars, pollVars, selVars, sockVars, openVars, relocVars, callVars, connVars, labelVars, skipVars, writeVars, fdSetVars>>
notUtimens == <<fsVars, rdVars, nbVars, pollVars, selVars, sockVars, openVars, relocVars, callVars, connVars, labelVars, skipVars, writeVars, fdSetVars, preadVars>>

(***************************************************************************)
(* Bounds of the model.                                                    *)
(***************************************************************************)
\* Largest descriptor a caller passes to Renumber, CloseFile or LookupReaddir.
MaxFD == 4
\* Number of files OpenFile and SockAccept may create in one behaviour.
MaxFiles == 2
\* Largest number of pre-opened directories of a CompositeFS.
MaxPreopens == 2
\* Largest number of TCP listeners handed to NewFSContext.
MaxListeners == 1
\* File.Close invocations counted per file before the count saturates the guards.
MaxCloses == 2

(***************************************************************************)
(* syscall.Errno values, by name.                                          *)
(***************************************************************************)
OK == "0"
EBADF == "EBADF"
ENOTSUP == "ENOTSUP"
ENOENT == "ENOENT"
EAGAIN == "EAGAIN"
EINVAL == "EINVAL"
ENOSYS == "ENOSYS"
EISDIR == "EISDIR"
ENOTDIR == "ENOTDIR"

FdStdin == 0
FdStdout == 1
FdStderr == 2
FdPreopen == 3

(***************************************************************************)
(* descriptor.Table: Insert takes the lowest free descriptor, InsertAt     *)
(* overwrites the given one, Delete frees it.  A table is a function from  *)
(* the descriptors in use to their items.                                  *)
(***************************************************************************)
EmptyTable == <<>>

Lookup(t, fd) == fd \in DOMAIN t

RECURSIVE FirstFree(_, _)
FirstFree(t, fd) == IF fd \in DOMAIN t THEN FirstFree(t, fd + 1) ELSE fd

PutAt(t, fd, item) == [k \in (DOMAIN t) \cup {fd} |-> IF k = fd THEN item ELSE t[k]]

\* Insert returns the new table and the descriptor it chose.
Insert(t, item) ==
    LET fd == FirstFree(t, 0)
    IN  [table |-> PutAt(t, fd, item), fd |-> fd, ok |-> TRUE]

InsertAt(t, item, fd) ==
    IF fd < 0 THEN [table |-> t, ok |-> FALSE]
    ELSE [table |-> PutAt(t, fd, item), ok |-> TRUE]

Delete(t, fd) == [k \in (DOMAIN t) \ {fd} |-> t[k]]

(***************************************************************************)
(* Files.  files[id] is one fsapi.File: type is what implements it and     *)
(* closes counts the invocations of its Close.                             *)
(***************************************************************************)
NewFile(fs, type) == Append(fs, [type |-> type, closes |-> 0])

CloseOf(fs, id) == [fs EXCEPT ![id].closes = @ + 1]

FileEntry(name, isPreopen, file) == [Name |-> name, IsPreopen |-> isPreopen, File |-> file]

\* What the backing filesystem holds at each path OpenFile is given.
TypeAt(path) == IF path = "/" \/ path = "." THEN "dir" ELSE "file"
\* The paths opened in SpecFS.
OpenPaths == {"."}

(***************************************************************************)
(* NewFSContext: stdin, stdout and stderr, then the pre-opened directories *)
(* of the root filesystem, then the TCP listeners, each through Insert.    *)
(* rootFS is "unimplemented" (fsapi.UnimplementedFS), "composite" (a       *)
(* *sysfs.CompositeFS with the given guest paths) or "other".              *)
(***************************************************************************)
\* One Insert of a new file of the given type under the given entry name.
InsertNew(c, name, isPreopen, type) ==
    LET fs == NewFile(c.files, type)
    IN  [files |-> fs,
         table |-> Insert(c.table, FileEntry(name, isPreopen, Len(fs))).table]

\* stdinFileEntry and stdioWriterFileEntry are not among the sources.  The
\* guest's listing of its pre-opens shows descriptors 0, 1 and 2 under the
\* names stdin, stdout and stderr (testPreopen, testFdReaddirStat), so the
\* three entries carry these names and are marked pre-open.
StdioIsPreopen == TRUE

StdioEntries(c) ==
    LET c0 == InsertNew(c, "stdin", StdioIsPreopen, "stdio")
        c1 == InsertNew(c0, "stdout", StdioIsPreopen, "stdio")
    IN  InsertNew(c1, "stderr", StdioIsPreopen, "stdio")

RECURSIVE InsertPreopens(_, _, _)
InsertPreopens(c, guestPaths, i) ==
    IF i > Len(guestPaths) THEN c
    ELSE InsertPreopens(InsertNew(c, guestPaths[i], TRUE, "lazyDir"), guestPaths, i + 1)

RECURSIVE InsertListeners(_, _)
InsertListeners(c, n) ==
    IF n = 0 THEN c
    ELSE InsertNew(InsertListeners(c, n - 1), "", TRUE, "listener")

\* A slip NewFSContext could make: the listeners before the directories.
NewFSContextListenersFirst(rootFS, guestPaths, tcpListeners) ==
    LET c0 == InsertListeners(StdioEntries([files |-> <<>>, table |-> EmptyTable]),
                              tcpListeners)
    IN  CASE rootFS = "unimplemented" -> c0
          [] rootFS = "composite" -> InsertPreopens(c0, guestPaths, 1)
          [] OTHER -> InsertNew(c0, "/", TRUE, "lazyDir")

NewFSContext(rootFS, guestPaths, tcpListeners) ==
    LET c0 == StdioEntries([files |-> <<>>, table |-> EmptyTable])
        c1 == CASE rootFS = "unimplemented" -> c0
                [] rootFS = "composite" -> InsertPreopens(c0, guestPaths, 1)
                [] OTHER -> InsertNew(c0, "/", TRUE, "lazyDir")
    IN  InsertListeners(c1, tcpListeners)

\* The guest paths of a CompositeFS with n mounts, in the order supplied.
GuestPathName == <<"/g1", "/g2", "/g3", "/g4">>
GuestPaths(n) == [i \in 1..n |-> GuestPathName[i]]

NoCall == [op |-> "none", errno |-> OK, newFD |-> -1]

Call(op, errno, newFD) == [op |-> op, errno |-> errno, newFD |-> newFD]

RootKinds == {"unimplemented", "composite", "other"}

\* The guest paths NewFSContext inserts for each kind of root filesystem.
Mounted(rootFS, n) ==
    CASE rootFS = "unimplemented" -> <<>>
      [] rootFS = "composite" -> GuestPaths(n)
      [] OTHER -> <<"/">>

InitFS ==
    \E rootFS \in RootKinds, n \in 1..MaxPreopens, tcpListeners \in 0..MaxListeners :
        /\ rootFS # "composite" => n = 1
        /\ LET c == NewFSContext(rootFS, GuestPaths(n), tcpListeners)
           IN  /\ openedFiles = c.table
               /\ files = c.files
        /\ config = [rootFS |-> rootFS, guestPaths |-> Mounted(rootFS, n),
                     tcpListeners |-> tcpListeners]
        /\ readdirs = EmptyTable
        /\ ctxClosed = FALSE
        /\ last = NoCall

\* The files NewFSContext made, and those made since.
ByNewFSContext(f) == f.type \in {"stdio", "lazyDir", "listener"}
Created == Cardinality({id \in 1..Len(files) : ~ByNewFSContext(files[id])})

(***************************************************************************)
(* FSContext.OpenFile.  errno is what the filesystem's OpenFile returns.   *)
(***************************************************************************)
\* A slip OpenFile could make: the new entry goes after the highest
\* descriptor in use instead of into the lowest free one.
OpenFileAppending(path, errno) ==
    /\ ~ctxClosed
    /\ IF errno # OK
       THEN /\ last' = Call("OpenFile", errno, 0)
            /\ UNCHANGED <<openedFiles, readdirs, files, ctxClosed, config>>
       ELSE /\ Created < MaxFiles
            /\ LET fs == NewFile(files, TypeAt(path))
                   fe == FileEntry(IF path = "/" \/ path = "." THEN "" ELSE path,
                                   FALSE, Len(fs))
                   top == CHOOSE fd \in 0..(MaxFD + MaxFiles + 4) :
                              \A k \in DOMAIN openedFiles : k < fd
                   r == InsertAt(openedFiles, fe, top)
               IN  /\ files' = fs
                   /\ last' = Call("OpenFile", OK, top)
                   /\ openedFiles' = r.table
            /\ UNCHANGED <<readdirs, ctxClosed, config>>

OpenFile(path, errno) ==
    /\ ~ctxClosed
    /\ IF errno # OK
       THEN /\ last' = Call("OpenFile", errno, 0)
            /\ UNCHANGED <<openedFiles, readdirs, files, ctxClosed, config>>
       ELSE /\ Created < MaxFiles
            /\ LET fs == NewFile(files, TypeAt(path))
                   fe == FileEntry(IF path = "/" \/ path = "." THEN "" ELSE path,
                                   FALSE, Len(fs))
                   r == Insert(openedFiles, fe)
               IN  /\ files' = fs
                   /\ IF ~r.ok
                      THEN /\ last' = Call("OpenFile", EBADF, 0)
                           /\ UNCHANGED openedFiles
                      ELSE /\ last' = Call("OpenFile", OK, r.fd)
                           /\ openedFiles' = r.table
            /\ UNCHANGED <<readdirs, ctxClosed, config>>

(***************************************************************************)
(* FSContext.SockAccept.  acceptErrno is what the listener's Accept        *)
(* returns and nonblockErrno what the connection's SetNonblock returns.    *)
(***************************************************************************)
\* A slip SockAccept could make: the connection whose SetNonblock failed is
\* left open.
SockAcceptLeaking(sockFD, nonblock, acceptErrno, nonblockErrno) ==
    /\ ~ctxClosed
    /\ IF \/ ~Lookup(openedFiles, sockFD)
          \/ ~openedFiles[sockFD].IsPreopen
          \/ files[openedFiles[sockFD].File].type # "listener"
       THEN /\ last' = Call("SockAccept", EBADF, 0)
            /\ UNCHANGED <<openedFiles, readdirs, files, ctxClosed, config>>
       ELSE IF acceptErrno # OK
       THEN /\ last' = Call("SockAccept", acceptErrno, 0)
            /\ UNCHANGED <<openedFiles, readdirs, files, ctxClosed, config>>
       ELSE /\ Created < MaxFiles
            /\ LET fs == NewFile(files, "conn")
                   conn == Len(fs)
               IN  IF nonblock /\ nonblockErrno # OK
                   THEN /\ files' = fs
                        /\ last' = Call("SockAccept", nonblockErrno, 0)
                        /\ UNCHANGED openedFiles
                   ELSE LET r == Insert(openedFiles, FileEntry("", FALSE, conn))
                        IN  /\ files' = fs
                            /\ IF ~r.ok
                               THEN /\ last' = Call("SockAccept", EBADF, 0)
                                    /\ UNCHANGED openedFiles
                               ELSE /\ last' = Call("SockAccept", OK, r.fd)
                                    /\ openedFiles' = r.table
            /\ UNCHANGED <<readdirs, ctxClosed, config>>

SockAccept(sockFD, nonblock, acceptErrno, nonblockErrno) ==
    /\ ~ctxClosed
    /\ IF \/ ~Lookup(openedFiles, sockFD)
          \/ ~openedFiles[sockFD].IsPreopen
          \/ files[openedFiles[sockFD].File].type # "listener"
       THEN /\ last' = Call("SockAccept", EBADF, 0)
            /\ UNCHANGED <<openedFiles, readdirs, files, ctxClosed, config>>
       ELSE IF acceptErrno # OK
       THEN /\ last' = Call("SockAccept", acceptErrno, 0)
            /\ UNCHANGED <<openedFiles, readdirs, files, ctxClosed, config>>
       ELSE /\ Created < MaxFiles
            /\ LET fs == NewFile(files, "conn")
                   conn == Len(fs)
               IN  IF nonblock /\ nonblockErrno # OK
                   THEN /\ files' = CloseOf(fs, conn)
                        /\ last' = Call("SockAccept", nonblockErrno, 0)
                        /\ UNCHANGED openedFiles
                   ELSE LET r == Insert(openedFiles, FileEntry("", FALSE, conn))
                        IN  /\ files' = fs
                            /\ IF ~r.ok
                               THEN /\ last' = Call("SockAccept", EBADF, 0)
                                    /\ UNCHANGED openedFiles
                               ELSE /\ last' = Call("SockAccept", OK, r.fd)
                                    /\ openedFiles' = r.table
            /\ UNCHANGED <<readdirs, ctxClosed, config>>

(***************************************************************************)
(* FSContext.LookupReaddir(idx, f), called with the entry f open at idx.   *)
(* A cursor is recorded by the File it iterates.                           *)
(***************************************************************************)
IsDir(f) == f.type \in {"lazyDir", "dir"}

LookupReaddir(idx) ==
    /\ ~ctxClosed
    /\ Lookup(openedFiles, idx)
    /\ LET f == openedFiles[idx]
       IN  IF Lookup(readdirs, idx)
           THEN /\ last' = Call("LookupReaddir", OK, readdirs[idx])
                /\ UNCHANGED readdirs
           ELSE IF ~IsDir(files[f.File])
           THEN /\ last' = Call("LookupReaddir", ENOTDIR, 0)
                /\ UNCHANGED readdirs
           ELSE IF files[f.File].closes > 0
           THEN /\ last' = Call("LookupReaddir", EBADF, 0)
                /\ UNCHANGED readdirs
           ELSE LET r == InsertAt(readdirs, f.File, idx)
                IN  IF ~r.ok
                    THEN /\ last' = Call("LookupReaddir", EINVAL, 0)
                         /\ UNCHANGED readdirs
                    ELSE /\ last' = Call("LookupReaddir", OK, f.File)
                         /\ readdirs' = r.table
    /\ UNCHANGED <<openedFiles, files, ctxClosed, config>>

(***************************************************************************)
(* FSContext.Renumber.                                                     *)
(***************************************************************************)
\* A slip Renumber could make: the entry is entered at `to` and left at
\* `from` as well.
RenumberKeepingFrom(from, to) ==
    /\ ~ctxClosed
    /\ IF ~Lookup(openedFiles, from) \/ to < 0
       THEN /\ last' = Call("Renumber", EBADF, -1)
            /\ UNCHANGED <<openedFiles, readdirs, files, ctxClosed, config>>
       ELSE IF openedFiles[from].IsPreopen
       THEN /\ last' = Call("Renumber", ENOTSUP, -1)
            /\ UNCHANGED <<openedFiles, readdirs, files, ctxClosed, config>>
       ELSE IF Lookup(openedFiles, to) /\ openedFiles[to].IsPreopen
       THEN /\ last' = Call("Renumber", ENOTSUP, -1)
            /\ UNCHANGED <<openedFiles, readdirs, files, ctxClosed, config>>
       ELSE LET fromFile == openedFiles[from]
                r == InsertAt(openedFiles, fromFile, to)
            IN  /\ IF Lookup(openedFiles, to)
                   THEN /\ files[openedFiles[to].File].closes < MaxCloses
                        /\ files' = CloseOf(files, openedFiles[to].File)
                   ELSE UNCHANGED files
                /\ openedFiles' = r.table
                /\ last' = Call("Renumber", IF r.ok THEN OK ELSE EBADF, -1)
                /\ UNCHANGED <<readdirs, ctxClosed, config>>

\* A slip Renumber could make: whatever is open at `to` is closed and
\* replaced, a pre-open too.
RenumberOntoPreopen(from, to) ==
    /\ ~ctxClosed
    /\ IF ~Lookup(openedFiles, from) \/ to < 0
       THEN /\ last' = Call("Renumber", EBADF, -1)
            /\ UNCHANGED <<openedFiles, readdirs, files, ctxClosed, config>>
       ELSE IF openedFiles[from].IsPreopen
       THEN /\ last' = Call("Renumber", ENOTSUP, -1)
            /\ UNCHANGED <<openedFiles, readdirs, files, ctxClosed, config>>
       ELSE LET fromFile == openedFiles[from]
                r == InsertAt(Delete(openedFiles, from), fromFile, to)
            IN  /\ IF Lookup(openedFiles, to)
                   THEN /\ files[openedFiles[to].File].closes < MaxCloses
                        /\ files' = CloseOf(files, openedFiles[to].File)
                   ELSE UNCHANGED files
                /\ openedFiles' = r.table
                /\ last' = Call("Renumber", IF r.ok THEN OK ELSE EBADF, -1)
                /\ UNCHANGED <<readdirs, ctxClosed, config>>

Renumber(from, to) ==
    /\ ~ctxClosed
    /\ IF ~Lookup(openedFiles, from) \/ to < 0
       THEN /\ last' = Call("Renumber", EBADF, -1)
            /\ UNCHANGED <<openedFiles, readdirs, files, ctxClosed, config>>
       ELSE IF openedFiles[from].IsPreopen
       THEN /\ last' = Call("Renumber", ENOTSUP, -1)
            /\ UNCHANGED <<openedFiles, readdirs, files, ctxClosed, config>>
       ELSE IF Lookup(openedFiles, to) /\ openedFiles[to].IsPreopen
       THEN /\ last' = Call("Renumber", ENOTSUP, -1)
            /\ UNCHANGED <<openedFiles, readdirs, files, ctxClosed, config>>
       ELSE LET fromFile == openedFiles[from]
                r == InsertAt(Delete(openedFiles, from), fromFile, to)
            IN  /\ IF Lookup(openedFiles, to)
                   THEN /\ files[openedFiles[to].File].closes < MaxCloses
                        /\ files' = CloseOf(files, openedFiles[to].File)
                   ELSE UNCHANGED files
                /\ openedFiles' = r.table
                /\ last' = Call("Renumber", IF r.ok THEN OK ELSE EBADF, -1)
                /\ UNCHANGED <<readdirs, ctxClosed, config>>

(***************************************************************************)
(* FSContext.CloseFile.                                                    *)
(***************************************************************************)
CloseFile(fd) ==
    /\ ~ctxClosed
    /\ IF ~Lookup(openedFiles, fd)
       THEN /\ last' = Call("CloseFile", EBADF, -1)
            /\ UNCHANGED <<openedFiles, readdirs, files, ctxClosed, config>>
       ELSE /\ files[openedFiles[fd].File].closes < MaxCloses
            /\ openedFiles' = Delete(openedFiles, fd)
            /\ readdirs' = Delete(readdirs, fd)
            /\ files' = CloseOf(files, openedFiles[fd].File)
            /\ last' = Call("CloseFile", OK, -1)
            /\ UNCHANGED <<ctxClosed, config>>

(***************************************************************************)
(* FSContext.Close: File.Close of every entry in the table, then both      *)
(* tables are replaced by empty ones.                                      *)
(***************************************************************************)
InTable(id) == \E fd \in DOMAIN openedFiles : openedFiles[fd].File = id

Close ==
    /\ ~ctxClosed
    /\ \A fd \in DOMAIN openedFiles : files[openedFiles[fd].File].closes < MaxCloses
    /\ files' = [id \in 1..Len(files) |->
                    IF InTable(id) THEN [files[id] EXCEPT !.closes = @ + 1] ELSE files[id]]
    /\ openedFiles' = EmptyTable
    /\ readdirs' = EmptyTable
    /\ ctxClosed' = TRUE
    /\ last' = Call("Close", OK, -1)
    /\ UNCHANGED config

Fds == 0..MaxFD

NextFS ==
    \/ \E path \in OpenPaths, errno \in {OK, ENOENT} :
            OpenFile(path, errno) /\ UNCHANGED notFS
    \/ \E sockFD \in Fds, nonblock \in BOOLEAN, acceptErrno \in {OK, EAGAIN},
          nonblockErrno \in {OK, EBADF} :
            /\ (acceptErrno # OK \/ ~nonblock) => nonblockErrno = OK
            /\ SockAccept(sockFD, nonblock, acceptErrno, nonblockErrno)
            /\ UNCHANGED notFS
    \/ \E from \in Fds, to \in -1..MaxFD : Renumber(from, to) /\ UNCHANGED notFS
    \/ \E fd \in Fds : CloseFile(fd) /\ UNCHANGED notFS
    \/ Close /\ UNCHANGED notFS


(***************************************************************************)
(* The descriptors together with the readdir cursors kept for them: the    *)
(* calls of NextFS but Close, and LookupReaddir, on a context made with    *)
(* one root directory.                                                     *)
(***************************************************************************)
\* The descriptors the calls are given: stderr, the root directory and what
\* follows it.
DescFds == FdStderr..MaxFD

InitDesc ==
    /\ InitFS
    /\ config.rootFS = "other"

NextDesc ==
    \/ \E path \in OpenPaths, errno \in {OK, ENOENT} :
            OpenFile(path, errno) /\ UNCHANGED notFS
    \/ \E sockFD \in DescFds, nonblock \in BOOLEAN, acceptErrno \in {OK, EAGAIN},
          nonblockErrno \in {OK, EBADF} :
            /\ (acceptErrno # OK \/ ~nonblock) => nonblockErrno = OK
            /\ SockAccept(sockFD, nonblock, acceptErrno, nonblockErrno)
            /\ UNCHANGED notFS
    \/ \E idx \in DescFds : LookupReaddir(idx) /\ UNCHANGED notFS
    \/ \E from \in DescFds, to \in {-1} \cup DescFds : Renumber(from, to) /\ UNCHANGED notFS
    \/ \E fd \in DescFds : CloseFile(fd) /\ UNCHANGED notFS


(***************************************************************************)
(* Readdir cursors.  A directory entry is named by a number: Dot and       *)
(* DotDot for "." and "..", k for the k-th entry of the directory in its   *)
(* backing order, NoDirent for the nil that Peek returns with an errno.    *)
(***************************************************************************)
Dot == -1
DotDot == -2
NoDirent == 0

\* Largest directory of the model: two full windows and a part of a third.
MaxEntries == 34
\* Largest n given to Skip.
MaxSkip == 2

direntBufSize == 16

Res(r, errno) == [r |-> r, errno |-> errno]

(***************************************************************************)
(* sliceReaddir: a cursor over a slice of entries.                         *)
(***************************************************************************)
NewReaddirFromSlice(dirents) == [cursor |-> 0, dirents |-> dirents]

SliceReset(s) == Res([s EXCEPT !.cursor = 0], OK)

SliceCookie(s) == s.cursor

SliceRewind(s, cookie) ==
    CASE cookie < 0 \/ cookie > s.cursor -> Res(s, EINVAL)
      [] cookie = 0 /\ s.cursor = 0 -> Res(s, OK)
      [] cookie = 0 /\ s.cursor # 0 -> SliceReset(s)
      [] cookie < s.cursor -> Res([s EXCEPT !.cursor = cookie], OK)
      [] OTHER -> Res(s, OK)

SlicePeek(s) ==
    IF s.cursor >= Len(s.dirents) THEN [dirent |-> NoDirent, errno |-> ENOENT]
    ELSE [dirent |-> s.dirents[s.cursor + 1], errno |-> OK]

SliceAdvance(s) ==
    IF s.cursor = Len(s.dirents) THEN Res(s, ENOENT)
    ELSE Res([s EXCEPT !.cursor = @ + 1], OK)

(***************************************************************************)
(* windowedReaddir over an os.File of n entries: pos is the position of    *)
(* the file's directory stream, which fetch reads on from and init (a seek *)
(* to the start) resets.  At the end of the directory os.File.Readdir      *)
(* returns no entry and io.EOF, which is errno 0.  Reads of the directory  *)
(* do not fail in this model.                                              *)
(***************************************************************************)
Min(a, b) == IF a < b THEN a ELSE b

\* A fetch that reads the directory from its start whatever the stream's position.
FetchFromStart(n, pos, size) ==
    [window |-> NewReaddirFromSlice([i \in 1..Min(size, n) |-> i]),
     pos |-> Min(size, n)]

\* fetch: the next batch of at most `size` entries, and the stream after it.
Fetch(n, pos, size) ==
    [window |-> NewReaddirFromSlice([i \in 1..(Min(pos + size, n) - pos) |-> pos + i]),
     pos |-> Min(pos + size, n)]

WindowedReset(n, d) ==
    LET f == Fetch(n, 0, direntBufSize)
    IN  Res([d EXCEPT !.cursor = 0, !.window = f.window, !.pos = f.pos], OK)

\* NewWindowedReaddir: the window starts as an emptyReaddir, then Reset.
NewWindowedReaddir(n) ==
    WindowedReset(n, [kind |-> "windowed", cursor |-> 0,
                      window |-> NewReaddirFromSlice(<<>>), pos |-> 0]).r

WindowedCookie(d) == d.cursor

\* A Rewind that takes any earlier cookie to be in the window it holds.
WindowedRewindAnyWindow(n, d, cookie) ==
    CASE cookie < 0 \/ cookie > d.cursor -> Res(d, EINVAL)
      [] cookie = 0 -> WindowedReset(n, d)
      [] cookie < d.cursor ->
            LET w == SliceRewind(d.window, cookie % direntBufSize)
            IN  Res([d EXCEPT !.cursor = cookie, !.window = w.r], w.errno)
      [] OTHER -> Res(d, OK)

WindowedRewind(n, d, cookie) ==
    CASE cookie < 0 \/ cookie > d.cursor -> Res(d, EINVAL)
      [] cookie = 0 -> WindowedReset(n, d)
      [] cookie < d.cursor ->
            IF cookie \div direntBufSize # d.cursor \div direntBufSize
            THEN Res(d, ENOSYS)
            ELSE LET w == SliceRewind(d.window, cookie % direntBufSize)
                 IN  Res([d EXCEPT !.cursor = cookie, !.window = w.r], w.errno)
      [] OTHER -> Res(d, OK)

\* Peek returns the cursor as well: it may have fetched a new window.
WindowedPeek(n, d) ==
    LET p == SlicePeek(d.window)
    IN  IF p.errno = ENOENT
        THEN LET f == Fetch(n, d.pos, direntBufSize)
                 q == SlicePeek(f.window)
             IN  [r |-> [d EXCEPT !.window = f.window, !.pos = f.pos],
                  dirent |-> q.dirent, errno |-> q.errno]
        ELSE [r |-> d, dirent |-> p.dirent, errno |-> p.errno]

\* An Advance that moves in the window and leaves the cursor's count alone.
WindowedAdvanceCursorKept(n, d) ==
    LET a == SliceAdvance(d.window)
    IN  IF a.errno = ENOENT
        THEN LET f == Fetch(n, d.pos, direntBufSize)
             IN  Res([d EXCEPT !.window = f.window, !.pos = f.pos], OK)
        ELSE IF a.errno # OK THEN Res(d, a.errno)
        ELSE Res([d EXCEPT !.window = a.r], OK)

WindowedAdvance(n, d) ==
    LET a == SliceAdvance(d.window)
    IN  IF a.errno = ENOENT
        THEN LET f == Fetch(n, d.pos, direntBufSize)
             IN  Res([d EXCEPT !.window = f.window, !.pos = f.pos], OK)
        ELSE IF a.errno # OK THEN Res(d, a.errno)
        ELSE Res([d EXCEPT !.window = a.r, !.cursor = @ + 1], OK)

(***************************************************************************)
(* File.Readdir returns a windowedReaddir for a file backed by an os.File  *)
(* and a sliceReaddir of the whole directory for an fs.ReadDirFile.  The   *)
(* operators below are the methods of whichever of the two r is.           *)
(***************************************************************************)
ReaddirKinds == {"windowed", "slice"}

FileReaddir(kind, n) ==
    IF kind = "windowed" THEN NewWindowedReaddir(n)
    ELSE [kind |-> "slice"] @@ NewReaddirFromSlice([i \in 1..n |-> i])

AsSlice(r) == [cursor |-> r.cursor, dirents |-> r.dirents]
FromSlice(r, s) == [r EXCEPT !.cursor = s.cursor]

Reset2(n, r) ==
    IF r.kind = "windowed" THEN WindowedReset(n, r)
    ELSE Res(FromSlice(r, SliceReset(AsSlice(r)).r), OK)

Cookie2(r) == r.cursor

Rewind2(n, r, cookie) ==
    IF r.kind = "windowed" THEN WindowedRewind(n, r, cookie)
    ELSE LET w == SliceRewind(AsSlice(r), cookie) IN Res(FromSlice(r, w.r), w.errno)

Peek2(n, r) ==
    IF r.kind = "windowed" THEN WindowedPeek(n, r)
    ELSE LET p == SlicePeek(AsSlice(r)) IN [r |-> r, dirent |-> p.dirent, errno |-> p.errno]

Advance2(n, r) ==
    IF r.kind = "windowed" THEN WindowedAdvance(n, r)
    ELSE LET a == SliceAdvance(AsSlice(r)) IN Res(FromSlice(r, a.r), a.errno)

(***************************************************************************)
(* concatReaddir, as LookupReaddir builds it: the slice of "." and ".."    *)
(* and then the directory's own cursor.  A cursor c is the record of its   *)
(* three fields.                                                           *)
(***************************************************************************)
NewConcatReaddir(f, s) == [first |-> f, second |-> s, current |-> "first"]

ConcatReset(n, c) ==
    LET r1 == SliceReset(c.first)
        r2 == Reset2(n, c.second)
    IN  IF r1.errno # OK THEN Res(c, r1.errno)
        ELSE IF r2.errno # OK THEN Res([c EXCEPT !.first = r1.r], r2.errno)
        ELSE Res([c EXCEPT !.first = r1.r, !.second = r2.r], OK)

ConcatCookie(c) == SliceCookie(c.first) + Cookie2(c.second)

ConcatRewind(n, c, cookie) ==
    LET ck == cookie - SliceCookie(c.first)
    IN  IF ck > 0
        THEN LET r2 == Rewind2(n, c.second, ck)
             IN  Res([c EXCEPT !.second = r2.r], r2.errno)
        ELSE LET r2 == Rewind2(n, c.second, 0)
                 r1 == SliceRewind(c.first, cookie)
             IN  IF r2.errno # OK
                 THEN Res([c EXCEPT !.current = "first", !.second = r2.r], r2.errno)
                 ELSE Res([c EXCEPT !.current = "first", !.second = r2.r, !.first = r1.r],
                          r1.errno)

ConcatPeek(n, c) ==
    IF c.current = "first"
    THEN LET p == SlicePeek(c.first)
         IN  IF p.errno # OK
             THEN LET q == Peek2(n, c.second)
                  IN  [r |-> [c EXCEPT !.current = "second", !.second = q.r],
                       dirent |-> q.dirent, errno |-> q.errno]
             ELSE [r |-> c, dirent |-> p.dirent, errno |-> OK]
    ELSE LET q == Peek2(n, c.second)
         IN  [r |-> [c EXCEPT !.second = q.r], dirent |-> q.dirent, errno |-> q.errno]

ConcatAdvance(n, c) ==
    IF c.current = "first"
    THEN LET a == SliceAdvance(c.first)
         IN  IF a.errno # OK
             THEN LET b == Advance2(n, c.second)
                  IN  Res([c EXCEPT !.current = "second", !.second = b.r], b.errno)
             ELSE Res([c EXCEPT !.first = a.r], OK)
    ELSE LET b == Advance2(n, c.second)
         IN  Res([c EXCEPT !.second = b.r], b.errno)

RECURSIVE ConcatSkip(_, _, _)
ConcatSkip(n, c, k) ==
    IF k = 0 THEN c ELSE ConcatSkip(n, ConcatAdvance(n, c).r, k - 1)

(***************************************************************************)
(* The cursor of the model and the calls on it.                            *)
(***************************************************************************)
Cursor == [first |-> first, second |-> second, current |-> current]

Cookie == ConcatCookie(Cursor)

SetCursor(c) ==
    /\ first' = c.first
    /\ second' = c.second
    /\ current' = c.current

RdCall(op, arg, errno, dirent) == [op |-> op, arg |-> arg, errno |-> errno, dirent |-> dirent]

\* LookupReaddir on a directory of some size, of either kind of file.
InitReaddir ==
    \E n \in 0..MaxEntries, kind \in ReaddirKinds :
        LET c == NewConcatReaddir(NewReaddirFromSlice(<<Dot, DotDot>>), FileReaddir(kind, n))
        IN  /\ dirSize = n
            /\ first = c.first
            /\ second = c.second
            /\ current = c.current
            /\ rdLast = RdCall("LookupReaddir", 0, OK, NoDirent)
            /\ origin = "new"
            /\ expect = "peek"
            /\ seen = <<>>
            /\ prevCookie = -1

\* A forward read is broken off and another may begin here.
Restart(how) ==
    /\ origin' = how
    /\ expect' = "peek"
    /\ seen' = <<>>
    /\ prevCookie' = -1

Peek ==
    LET p == ConcatPeek(dirSize, Cursor)
    IN  /\ SetCursor(p.r)
        /\ rdLast' = RdCall("Peek", 0, p.errno, p.dirent)
        /\ IF expect = "peek"
           THEN /\ expect' = IF p.errno = OK THEN "advance" ELSE "done"
                /\ prevCookie' = IF p.errno = OK THEN ConcatCookie(p.r) ELSE prevCookie
                /\ seen' = IF p.errno = OK /\ origin # "other"
                           THEN Append(seen, p.dirent) ELSE seen
                /\ UNCHANGED origin
           ELSE UNCHANGED <<origin, expect, seen, prevCookie>>
        /\ UNCHANGED dirSize

Advance ==
    LET a == ConcatAdvance(dirSize, Cursor)
    IN  /\ SetCursor(a.r)
        /\ rdLast' = RdCall("Advance", 0, a.errno, NoDirent)
        /\ IF expect = "advance" /\ a.errno = OK
           THEN /\ expect' = "peek"
                /\ UNCHANGED <<origin, seen, prevCookie>>
           ELSE Restart("other")
        /\ UNCHANGED dirSize

Rewind(cookie) ==
    LET r == ConcatRewind(dirSize, Cursor, cookie)
    IN  /\ SetCursor(r.r)
        /\ rdLast' = RdCall("Rewind", cookie, r.errno, NoDirent)
        /\ Restart(IF cookie = 0 /\ r.errno = OK THEN "rewind0" ELSE "other")
        /\ UNCHANGED dirSize

Reset ==
    LET r == ConcatReset(dirSize, Cursor)
    IN  /\ SetCursor(r.r)
        /\ rdLast' = RdCall("Reset", 0, r.errno, NoDirent)
        /\ Restart("other")
        /\ UNCHANGED dirSize

Skip(k) ==
    /\ SetCursor(ConcatSkip(dirSize, Cursor, k))
    /\ rdLast' = RdCall("Skip", k, OK, NoDirent)
    /\ Restart("other")
    /\ UNCHANGED dirSize

Cookies == -1..(MaxEntries + 3)

NextReaddir ==
    \/ Peek /\ UNCHANGED notReaddir
    \/ Advance /\ UNCHANGED notReaddir
    \/ \E cookie \in Cookies : Rewind(cookie) /\ UNCHANGED notReaddir
    \/ Reset /\ UNCHANGED notReaddir
    \/ \E k \in 1..MaxSkip : Skip(k) /\ UNCHANGED notReaddir

(***************************************************************************)
(* nbreader: Read hands a request to the background task readAsync over    *)
(* the unbuffered channel rreq and waits for its answer on the unbuffered  *)
(* channel rresp for 1 ms.  A send and its receive are one step, taken     *)
(* when both sides are at it.  The underlying reader is a stream into      *)
(* which bytes arrive and which may end; bufio.Reader.Peek(n) returns once *)
(* n bytes are there or the stream has ended, and takes nothing out.       *)
(***************************************************************************)
\* Largest len(p) of a Read.
MaxReadLen == 3
\* Most bytes the underlying reader produces.
MaxBytes == 3
\* Most Read calls made.
MaxReads == 3

NoReq == [tpe |-> 0, n |-> 0]
NoResp == [n |-> 0, err |-> "nil"]
NoRead == [op |-> "none", lenP |-> 0, ready |-> 0, n |-> 0, err |-> "nil"]

\* newNbreader: the channels are made and readAsync started.
InitNb ==
    /\ pcR = "idle"
    /\ pcA = "recv"
    /\ lenP = 0
    /\ msg = NoReq
    /\ rsp = NoResp
    /\ rr = NoResp
    /\ arrived \in 0..MaxBytes
    /\ eof \in BOOLEAN
    /\ consumed = 0
    /\ reads = 0
    /\ closed = FALSE
    /\ nbLast = NoRead

\* Bytes bufio.Reader.Peek can see.
Buffered == arrived - consumed

\* Peek(n) would return at once.
PeekReady(n) == Buffered >= n \/ eof

\* The caller enters Read(p) and comes to its first send on rreq.
ReadCall(n) ==
    /\ pcR = "idle"
    /\ ~closed
    /\ reads < MaxReads
    /\ pcR' = "send1"
    /\ lenP' = n
    /\ reads' = reads + 1
    /\ nbLast' = [op |-> "calling", lenP |-> n, ready |-> Buffered, n |-> 0, err |-> "nil"]
    /\ UNCHANGED <<pcA, msg, rsp, rr, arrived, eof, consumed, closed>>

\* readAsync with the req it received: a peek for tpe 0; for tpe 1 it reads
\* up to n bytes out of the buffer and waits for the next req.  Read sends
\* no req of tpe 1.
Received(m) ==
    /\ msg' = m
    /\ IF m.tpe = 0
       THEN pcA' = "peek" /\ UNCHANGED consumed
       ELSE /\ pcA' = "recv"
            /\ consumed' = IF m.tpe = 1 THEN consumed + Min(m.n, Buffered) ELSE consumed

\* Read's first send on rreq meets readAsync's receive.
SendReq ==
    /\ pcR = "send1"
    /\ pcA = "recv"
    /\ pcR' = "select"
    /\ Received([tpe |-> 0, n |-> lenP])
    /\ UNCHANGED <<lenP, rsp, rr, arrived, eof, reads, nbLast, closed>>

\* readAsync's Peek(m.n) returns: m.n bytes, or what there is and io.EOF.
PeekReturns ==
    /\ pcA = "peek"
    /\ PeekReady(msg.n)
    /\ pcA' = "send"
    /\ rsp' = [n |-> Min(msg.n, Buffered), err |-> IF Buffered >= msg.n THEN "nil" ELSE "EOF"]
    /\ UNCHANGED <<pcR, lenP, msg, rr, arrived, eof, consumed, reads, nbLast, closed>>

\* readAsync's send on rresp meets the receive of Read's select.
RecvResp ==
    /\ pcR = "select"
    /\ pcA = "send"
    /\ rr' = rsp
    /\ pcR' = "send2"
    /\ pcA' = "recv"
    /\ UNCHANGED <<lenP, msg, rsp, arrived, eof, consumed, reads, nbLast, closed>>

\* Read's second send on rreq meets readAsync's receive, and Read returns
\* len(rr.res) and rr.err, nil for io.EOF.
SendReqAgain ==
    /\ pcR = "send2"
    /\ pcA = "recv"
    /\ pcR' = "idle"
    /\ Received([tpe |-> 0, n |-> lenP])
    /\ nbLast' = [nbLast EXCEPT !.op = "Read", !.n = rr.n,
                                !.err = IF rr.err # "EOF" THEN rr.err ELSE "nil"]
    /\ UNCHANGED <<lenP, rsp, rr, arrived, eof, reads, closed>>

\* The 1 ms of Read's select pass with readAsync still inside Peek, waiting
\* for the underlying reader: Read returns 0 and EAGAIN.
Timeout ==
    /\ pcR = "select"
    /\ pcA = "peek"
    /\ ~PeekReady(msg.n)
    /\ pcR' = "idle"
    /\ nbLast' = [nbLast EXCEPT !.op = "Read", !.n = 0, !.err = EAGAIN]
    /\ UNCHANGED <<pcA, lenP, msg, rsp, rr, arrived, eof, consumed, reads, closed>>

\* The underlying reader produces a byte.
Arrive ==
    /\ ~eof
    /\ arrived < MaxBytes
    /\ arrived' = arrived + 1
    /\ UNCHANGED <<pcR, pcA, lenP, msg, rsp, rr, eof, consumed, reads, nbLast, closed>>

\* The underlying reader reaches its end.
Eof ==
    /\ ~eof
    /\ eof' = TRUE
    /\ UNCHANGED <<pcR, pcA, lenP, msg, rsp, rr, arrived, consumed, reads, nbLast, closed>>

\* nbreader.Close, called between Reads: both channels are closed.
NbClose ==
    /\ pcR = "idle"
    /\ ~closed
    /\ closed' = TRUE
    /\ UNCHANGED <<pcR, pcA, lenP, msg, rsp, rr, arrived, eof, consumed, reads, nbLast>>

\* readAsync's receive from the closed rreq yields the zero req at once.
RecvClosed ==
    /\ closed
    /\ pcA = "recv"
    /\ Received(NoReq)
    /\ UNCHANGED <<pcR, lenP, rsp, rr, arrived, eof, reads, closed, nbLast>>

\* readAsync's send on the closed rresp panics, whether it came to the send
\* after the close or was blocked in it when the channel was closed.
SendClosed ==
    /\ closed
    /\ pcA = "send"
    /\ pcA' = "panic"
    /\ UNCHANGED <<pcR, lenP, msg, rsp, rr, arrived, eof, consumed, reads, closed, nbLast>>

\* A step of Read or of readAsync.
NbStep == SendReq \/ PeekReturns \/ RecvResp \/ SendReqAgain \/ Timeout

NextNb ==
    \/ \E n \in 1..MaxReadLen : ReadCall(n) /\ UNCHANGED notNb
    \/ SendReq /\ UNCHANGED notNb
    \/ PeekReturns /\ UNCHANGED notNb
    \/ RecvResp /\ UNCHANGED notNb
    \/ SendReqAgain /\ UNCHANGED notNb
    \/ Timeout /\ UNCHANGED notNb
    \/ Arrive /\ UNCHANGED notNb
    \/ Eof /\ UNCHANGED notNb
    \/ NbClose /\ UNCHANGED notNb
    \/ RecvClosed /\ UNCHANGED notNb
    \/ SendClosed /\ UNCHANGED notNb

(***************************************************************************)
(* pollOneoff: each subscription is given to processEvent, which starts a  *)
(* goroutine that sends its pollValue on the unbuffered resultChannel;     *)
(* pollOneoffFn then receives one value and writes it to `out`.            *)
(***************************************************************************)
\* Most subscriptions of a call.
MaxSubs == 2
\* Longest timeout of a clock subscription.
MaxTimeout == 1
\* How long the call is watched.
MaxTime == 2

EventTypes == {"clock", "fd_read", "fd_write", "unknown"}

\* subclockflags: 0 relative, 1 subscription_clock_abstime, 2 for any other.
ClockFlags == {0, 1, 2}

\* The subscriptions a guest may pass; userData is set to the index by Subs.
Subscriptions ==
    [eventType : {"clock"}, flags : ClockFlags, timeout : 0..MaxTimeout]
        \cup [eventType : EventTypes \ {"clock"}, flags : {0}, timeout : {0}]

\* The file the fd subscriptions name: whether LookupFile finds it, whether
\* Stat says character device, whether it is a *StdioFileReader, what
\* ReadByte on its reader does, whether WriterForFile finds a writer.
StdinKinds ==
    [open : BOOLEAN, tty : BOOLEAN, stdio : BOOLEAN,
     readByte : {"data", "error", "blocks"}, writer : BOOLEAN]

\* Files that differ in what processFDEvent looks at.
Looked(f) ==
    /\ ~f.open => ~f.tty /\ ~f.stdio
    /\ ~(f.open /\ f.tty /\ f.stdio) => f.readByte = "blocks"

NoTask == [pc |-> "none", errno |-> OK, deadline |-> 0]

StaleEvent == [userData |-> 0, errno |-> "stale", type |-> "stale"]

NoPollRet == [errno |-> OK, winner |-> 0]

InitPoll ==
    \E n \in 1..MaxSubs :
        \E ss \in [1..n -> Subscriptions], f \in StdinKinds :
            /\ Looked(f)
            /\ subs = ss
            /\ stdin = f
            /\ pcP = "loop"
            /\ nextSub = 1
            /\ tasks = [i \in 1..n |-> NoTask]
            /\ now = 0
            /\ outBuf = [i \in 1..n |-> StaleEvent]
            /\ nevents = n
            /\ pollRet = NoPollRet

\* The pollValue of subscription i: its userdata is named by i.
PollValue(i, errno) ==
    [eventType |-> subs[i].eventType, userData |-> i, errno |-> errno, outOffset |-> 32 * (i - 1)]

\* processEvent on the next subscription: a goroutine for a clock or fd
\* subscription, EINVAL and the end of the call for any other.
ProcessEvent ==
    /\ pcP = "loop"
    /\ IF subs[nextSub].eventType = "unknown"
       THEN /\ pcP' = "returned"
            /\ pollRet' = [errno |-> EINVAL, winner |-> 0]
            /\ UNCHANGED <<nextSub, tasks>>
       ELSE /\ tasks' = [tasks EXCEPT ![nextSub].pc = "run"]
            /\ nextSub' = nextSub + 1
            /\ pcP' = IF nextSub = Len(subs) THEN "recv" ELSE "loop"
            /\ UNCHANGED pollRet
    /\ UNCHANGED <<subs, stdin, now, outBuf, nevents>>

\* The goroutine of processClockEvent: an errno for flags other than 0,
\* otherwise it waits for time.After(timeout).
ClockRun(i) ==
    /\ tasks[i].pc = "run"
    /\ subs[i].eventType = "clock"
    /\ tasks' = [tasks EXCEPT ![i] =
            CASE subs[i].flags = 0 -> [pc |-> "sleep", errno |-> OK, deadline |-> now + subs[i].timeout]
              [] subs[i].flags = 1 -> [pc |-> "send", errno |-> ENOTSUP, deadline |-> 0]
              [] OTHER -> [pc |-> "send", errno |-> EINVAL, deadline |-> 0]]
    /\ UNCHANGED <<subs, stdin, pcP, nextSub, now, outBuf, nevents, pollRet>>

\* time.After(timeout) fires.
ClockFire(i) ==
    /\ tasks[i].pc = "sleep"
    /\ now >= tasks[i].deadline
    /\ tasks' = [tasks EXCEPT ![i] = [pc |-> "send", errno |-> OK, deadline |-> 0]]
    /\ UNCHANGED <<subs, stdin, pcP, nextSub, now, outBuf, nevents, pollRet>>

\* Another fd_read goroutine may be using the same reader.
SharedReader(i) ==
    \E j \in DOMAIN subs : j # i /\ subs[j].eventType = "fd_read"

\* The goroutine of processFDEvent up to its send.  ReadByte on a reader
\* with nothing to read does not return; two goroutines on one reader race,
\* and either may find the byte gone.
FdRun(i) ==
    /\ tasks[i].pc = "run"
    /\ subs[i].eventType \in {"fd_read", "fd_write"}
    /\ \E rb \in {"data", "error", "blocks"} :
        /\ \/ rb = stdin.readByte
           \/ stdin.readByte = "data" /\ SharedReader(i) /\ rb = "blocks"
        /\ tasks' = [tasks EXCEPT ![i] =
            IF subs[i].eventType = "fd_read"
            THEN IF stdin.open
                 THEN IF stdin.tty /\ stdin.stdio
                      THEN CASE rb = "data" -> [pc |-> "send", errno |-> EBADF, deadline |-> 0]
                             [] rb = "error" -> [pc |-> "send", errno |-> ENOTSUP, deadline |-> 0]
                             [] OTHER -> [pc |-> "readByte", errno |-> ENOTSUP, deadline |-> 0]
                      ELSE [pc |-> "send", errno |-> ENOTSUP, deadline |-> 0]
                 ELSE [pc |-> "send", errno |-> EBADF, deadline |-> 0]
            ELSE IF ~stdin.writer
                 THEN [pc |-> "send", errno |-> EBADF, deadline |-> 0]
                 ELSE [pc |-> "send", errno |-> ENOTSUP, deadline |-> 0]]
    /\ UNCHANGED <<subs, stdin, pcP, nextSub, now, outBuf, nevents, pollRet>>

\* write: the userdata goes to the start of outBuf, errno and type to the
\* record at value.outOffset.
WriteEvent(buf, value) ==
    LET b1 == [buf EXCEPT ![1].userData = value.userData]
        k == (value.outOffset \div 32) + 1
    IN  [b1 EXCEPT ![k].errno = value.errno, ![k].type = value.eventType]

\* Goroutine i's send on resultChannel meets pollOneoffFn's receive; the
\* value is written and the call returns 0.
RecvResult(i) ==
    /\ pcP = "recv"
    /\ tasks[i].pc = "send"
    /\ tasks' = [tasks EXCEPT ![i].pc = "done"]
    /\ outBuf' = WriteEvent(outBuf, PollValue(i, tasks[i].errno))
    /\ pcP' = "returned"
    /\ pollRet' = [errno |-> OK, winner |-> i]
    /\ UNCHANGED <<subs, stdin, nextSub, now, nevents>>

Tick ==
    /\ now < MaxTime
    /\ now' = now + 1
    /\ UNCHANGED <<subs, stdin, pcP, nextSub, tasks, outBuf, nevents, pollRet>>

NextPoll ==
    \/ ProcessEvent /\ UNCHANGED notPoll
    \/ \E i \in DOMAIN subs : ClockRun(i) /\ UNCHANGED notPoll
    \/ \E i \in DOMAIN subs : ClockFire(i) /\ UNCHANGED notPoll
    \/ \E i \in DOMAIN subs : FdRun(i) /\ UNCHANGED notPoll
    \/ \E i \in DOMAIN subs : RecvResult(i) /\ UNCHANGED notPoll
    \/ Tick /\ UNCHANGED notPoll

(***************************************************************************)
(* select on Windows.  Two files of the sources define it: part_004 with   *)
(* pollNamedPipes, selectPipes and a peekAllPipes that counts, and         *)
(* select_windows.go with pollNamedPipe, selectPipe and a peekAllPipes     *)
(* that answers yes or no (1 or 0 here).  A build has one of them.  Time   *)
(* is counted in units of 50 ms, and a select whose case is ready takes it *)
(* before time moves on.  The read sets hold no socket.                    *)
(***************************************************************************)
\* Most handles in the read set.
MaxPipes == 2
\* Longest duration, in units of 50 ms.
MaxDuration == 3
\* How long the call is watched, in units of 50 ms.
MaxSelTime == 5

\* pollInterval, 100 ms, in units of 50 ms.
pollInterval == 2

NilDuration == -1

NoData == -1

Builds == {"part_004", "select_windows.go"}

NoSelRet == [n |-> 0, errno |-> OK]

InitSelect ==
    \E b \in Builds, fn \in {"pollNamedPipes", "syscall_select"}, n \in {0, 1},
       d \in {NilDuration} \cup 0..MaxDuration, k \in 0..MaxPipes :
        \E ps \in [1..k -> {"empty", "data", "error"}] :
            /\ fn = "pollNamedPipes" => n = 1
            /\ build = b
            /\ selFn = fn
            /\ nfds = n
            /\ duration = d
            /\ pipes = ps
            /\ pipes0 = ps
            /\ dataAt = IF \E i \in 1..k : ps[i] = "data" THEN 0 ELSE NoData
            /\ rCount = k
            /\ cancelled = FALSE
            /\ selNow = 0
            /\ nextTick = 0
            /\ pcS = "start"
            /\ selRet = NoSelRet

\* A peekNamedPipe that never finds a byte.
PeekNamedPipeNoBytes(h) ==
    IF h = "error" THEN [bytes |-> 0, errno |-> EBADF] ELSE [bytes |-> 0, errno |-> OK]

\* peekNamedPipe on a handle: the bytes it finds and its errno.
PeekNamedPipe(h) ==
    CASE h = "data" -> [bytes |-> 1, errno |-> OK]
      [] h = "empty" -> [bytes |-> 0, errno |-> OK]
      [] OTHER -> [bytes |-> 0, errno |-> EBADF]

\* peekAllPipes of part_004 from handle i on, with `ready` counted so far.
RECURSIVE PeekCount(_, _, _, _)
PeekCount(ps, count, i, ready) ==
    IF i > count THEN [n |-> ready, errno |-> OK]
    ELSE LET p == PeekNamedPipe(ps[i])
             r == IF p.bytes > 0 THEN ready + 1 ELSE ready
         IN  IF p.errno # OK THEN [n |-> r, errno |-> p.errno]
             ELSE PeekCount(ps, count, i + 1, r)

\* peekAllPipes of select_windows.go from handle i on.
RECURSIVE PeekAny(_, _, _)
PeekAny(ps, count, i) ==
    IF i > count THEN [n |-> 0, errno |-> OK]
    ELSE LET p == PeekNamedPipe(ps[i])
         IN  IF p.errno # OK THEN [n |-> 0, errno |-> p.errno]
             ELSE IF p.bytes > 0 THEN [n |-> 1, errno |-> OK]
             ELSE PeekAny(ps, count, i + 1)

peekAllPipes ==
    IF build = "part_004" THEN PeekCount(pipes, rCount, 1, 0) ELSE PeekAny(pipes, rCount, 1)

\* winsock_select on read sets without sockets: r.Count() is 0 and it
\* returns 0, 0 without calling the OS.
WinsockSelect == [n |-> 0, errno |-> OK]

\* What selectPipes (part_004) and selectPipe (select_windows.go) make of the
\* poll's result: the count they return and Count() of the set afterwards.
SelectPipes(res) ==
    IF build = "part_004"
    THEN CASE res.errno # OK -> [n |-> -1, errno |-> res.errno, count |-> rCount]
           [] res.n # 0 -> [n |-> 0, errno |-> OK, count |-> 0]
           [] OTHER -> [n |-> res.n, errno |-> res.errno, count |-> rCount]
    ELSE CASE res.errno # OK -> [n |-> -1, errno |-> res.errno, count |-> rCount]
           [] res.n = 0 -> [n |-> 0, errno |-> OK, count |-> 0]
           [] OTHER -> [n |-> 1, errno |-> OK, count |-> rCount]

\* The poll returns res: to its caller, or into syscall_select, which goes on
\* to winsock_select and returns the sum.
Finish(res) ==
    /\ pcS' = "returned"
    /\ IF selFn = "pollNamedPipes"
       THEN selRet' = res /\ UNCHANGED rCount
       ELSE LET sp == SelectPipes(res)
            IN  /\ rCount' = sp.count
                /\ selRet' = IF sp.errno # OK THEN [n |-> sp.n, errno |-> sp.errno]
                             ELSE [n |-> sp.n + WinsockSelect.n, errno |-> WinsockSelect.errno]

\* The call up to its first wait: syscall_select with n = 0 sleeps or fails,
\* a zero duration probes once, any other starts the ticker and the timer.
SelCall ==
    /\ pcS = "start"
    /\ IF selFn = "syscall_select" /\ nfds = 0
       THEN IF duration = NilDuration
            THEN /\ pcS' = "returned"
                 /\ selRet' = [n |-> -1, errno |-> ENOSYS]
                 /\ UNCHANGED <<rCount, nextTick>>
            ELSE /\ pcS' = "sleep"
                 /\ UNCHANGED <<rCount, nextTick, selRet>>
       ELSE IF duration = 0
            THEN Finish(peekAllPipes) /\ UNCHANGED nextTick
            ELSE /\ pcS' = "select"
                 /\ nextTick' = selNow + pollInterval
                 /\ UNCHANGED <<rCount, selRet>>
    /\ UNCHANGED <<build, selFn, nfds, duration, pipes, pipes0, dataAt, cancelled, selNow>>

\* time.Sleep(*timeout) is over.
SleepDone ==
    /\ pcS = "sleep"
    /\ selNow >= duration
    /\ pcS' = "returned"
    /\ selRet' = [n |-> 0, errno |-> OK]
    /\ UNCHANGED <<build, selFn, nfds, duration, pipes, pipes0, dataAt, rCount, cancelled, selNow,
                   nextTick>>

\* case <-ctx.Done()
CtxDone ==
    /\ pcS = "select"
    /\ cancelled
    /\ Finish([n |-> 0, errno |-> OK])
    /\ UNCHANGED <<build, selFn, nfds, duration, pipes, pipes0, dataAt, cancelled, selNow, nextTick>>

AfterReady == duration # NilDuration /\ selNow >= duration

\* case <-afterCh
AfterFires ==
    /\ pcS = "select"
    /\ AfterReady
    /\ Finish([n |-> 0, errno |-> OK])
    /\ UNCHANGED <<build, selFn, nfds, duration, pipes, pipes0, dataAt, cancelled, selNow, nextTick>>

\* case <-tickCh: part_004 returns what the peek found; select_windows.go
\* returns on an error or on data and otherwise waits on.
TickFires ==
    /\ pcS = "select"
    /\ selNow >= nextTick
    /\ LET res == peekAllPipes
       IN  IF build = "part_004" \/ res.errno # OK \/ res.n > 0
           THEN Finish(res) /\ UNCHANGED nextTick
           ELSE /\ nextTick' = nextTick + pollInterval
                /\ UNCHANGED <<pcS, rCount, selRet>>
    /\ UNCHANGED <<build, selFn, nfds, duration, pipes, pipes0, dataAt, cancelled, selNow>>

\* The test's context is cancelled; syscall_select passes context.TODO().
Cancel ==
    /\ pcS = "select"
    /\ selFn = "pollNamedPipes"
    /\ ~cancelled
    /\ cancelled' = TRUE
    /\ UNCHANGED <<build, selFn, nfds, duration, pipes, pipes0, dataAt, rCount, selNow, nextTick,
                   pcS, selRet>>

\* Data is written to the pipe of handle i.
PipeWrite(i) ==
    /\ pcS # "returned"
    /\ pipes[i] = "empty"
    /\ pipes' = [pipes EXCEPT ![i] = "data"]
    /\ dataAt' = IF dataAt = NoData THEN selNow ELSE dataAt
    /\ UNCHANGED <<build, selFn, nfds, duration, pipes0, rCount, cancelled, selNow, nextTick,
                   pcS, selRet>>

\* A unit of time passes while the call waits with nothing to wake it.
SelTick ==
    /\ selNow < MaxSelTime
    /\ \/ pcS = "sleep" /\ selNow < duration
       \/ pcS = "select" /\ ~cancelled /\ ~AfterReady /\ selNow < nextTick
    /\ selNow' = selNow + 1
    /\ UNCHANGED <<build, selFn, nfds, duration, pipes, pipes0, dataAt, rCount, cancelled, nextTick,
                   pcS, selRet>>

NextSelect ==
    \/ SelCall /\ UNCHANGED notSel
    \/ SleepDone /\ UNCHANGED notSel
    \/ CtxDone /\ UNCHANGED notSel
    \/ AfterFires /\ UNCHANGED notSel
    \/ TickFires /\ UNCHANGED notSel
    \/ Cancel /\ UNCHANGED notSel
    \/ \E i \in DOMAIN pipes : PipeWrite(i) /\ UNCHANGED notSel
    \/ SelTick /\ UNCHANGED notSel

(***************************************************************************)
(* TCP listeners: winTcpListenerFile of sock_windows.go behind             *)
(* FSContext.SockAccept.  The listeners stay open while they are in the    *)
(* table, so SyscallConn and the socket's mode switch do not fail.         *)
(***************************************************************************)
\* Most connections waiting at a listener.
MaxPending == 1
\* SockAccept calls counted.
MaxAccepts == 3

\* WSAEWOULDBLOCK, by name.
_WASWOULDBLOCK == "WSAEWOULDBLOCK"

FileIds == 1..(3 + MaxPreopens + MaxListeners + MaxFiles)

NoAccept == [listener |-> FALSE, nonblock |-> FALSE, pending |-> 0]

InitSock ==
    /\ InitFS
    /\ nonblocking = {}
    /\ pending \in [FileIds -> 0..MaxPending]
    /\ \A id \in FileIds : pending[id] > 0 => id \in DOMAIN files /\ files[id].type = "listener"
    /\ accepts = 0
    /\ acceptIn = NoAccept

\* The accept of winsock on a listening socket: WSAEWOULDBLOCK when the
\* socket is non-blocking and nothing waits; a blocking socket waits.
accept(isNonblock, waiting) ==
    IF waiting > 0 THEN [returns |-> TRUE, errno |-> OK]
    ELSE IF isNonblock THEN [returns |-> TRUE, errno |-> _WASWOULDBLOCK]
    ELSE [returns |-> FALSE, errno |-> OK]

\* An Accept that hands on what accept returned.
AcceptUnmapped(isNonblock, waiting) == accept(isNonblock, waiting)

\* winTcpListenerFile.Accept: whether it returns, and its errno.
Accept(isNonblock, waiting) ==
    IF isNonblock
    THEN LET a == accept(TRUE, waiting)
         IN  IF a.errno = _WASWOULDBLOCK THEN [returns |-> TRUE, errno |-> EAGAIN] ELSE a
    ELSE accept(FALSE, waiting)

\* The file at fd is a pre-opened listener.
IsListener(fd) ==
    /\ Lookup(openedFiles, fd)
    /\ openedFiles[fd].IsPreopen
    /\ files[openedFiles[fd].File].type = "listener"

\* winTcpListenerFile.SetNonblock through the descriptor fd.
SetNonblock(fd, enabled) ==
    /\ ~ctxClosed
    /\ IsListener(fd)
    /\ nonblocking' = IF enabled THEN nonblocking \cup {openedFiles[fd].File}
                      ELSE nonblocking \ {openedFiles[fd].File}
    /\ UNCHANGED <<fsVars, pending, accepts, acceptIn>>

\* A client connects to the listener file id.
Connect(id) ==
    /\ id \in DOMAIN files
    /\ files[id].type = "listener"
    /\ files[id].closes = 0
    /\ pending[id] < MaxPending
    /\ pending' = [pending EXCEPT ![id] = @ + 1]
    /\ UNCHANGED <<fsVars, nonblocking, accepts, acceptIn>>

\* FSContext.SockAccept with the listener's own Accept.
Accepting(sockFD, nonblock, nonblockErrno) ==
    /\ accepts < MaxAccepts
    /\ accepts' = accepts + 1
    /\ UNCHANGED nonblocking
    /\ IF IsListener(sockFD)
       THEN LET id == openedFiles[sockFD].File
                a == Accept(id \in nonblocking, pending[id])
            IN  /\ a.returns
                /\ acceptIn' = [listener |-> TRUE, nonblock |-> id \in nonblocking,
                                pending |-> pending[id]]
                /\ pending' = IF a.errno = OK THEN [pending EXCEPT ![id] = @ - 1] ELSE pending
                /\ SockAccept(sockFD, nonblock, a.errno, nonblockErrno)
       ELSE /\ acceptIn' = NoAccept
            /\ UNCHANGED pending
            /\ SockAccept(sockFD, nonblock, OK, nonblockErrno)

NextSock ==
    \/ \E fd \in Fds, enabled \in BOOLEAN : SetNonblock(fd, enabled) /\ UNCHANGED notSock
    \/ \E id \in FileIds : Connect(id) /\ UNCHANGED notSock
    \/ \E sockFD \in Fds, nonblock \in BOOLEAN, nonblockErrno \in {OK, EBADF} :
            /\ ~nonblock => nonblockErrno = OK
            /\ Accepting(sockFD, nonblock, nonblockErrno)
            /\ UNCHANGED notSock
    \/ \E fd \in Fds : CloseFile(fd) /\ UNCHANGED <<sockVars, notSock>>

(***************************************************************************)
(* Opening through a filesystem.  A flag is the set of its bits; the empty *)
(* set is O_RDONLY.  A filesystem over a host directory opens with         *)
(* OpenOSFile, one over an fs.FS with OpenFSFile.                          *)
(***************************************************************************)
\* FSContext.OpenFile calls counted.
MaxOpens == 2

Flags == SUBSET {"O_WRONLY", "O_RDWR", "O_DIRECTORY"}

FSKinds == {"dir", "fs.FS"}

\* The paths opened through a filesystem.
FSPaths == {".", "f"}

InitOpen ==
    /\ InitFS
    /\ openFlag = {}
    /\ fsOpens = 0
    /\ opens = 0

\* An OpenFile without the check of the flag.
SysOpenFileUnchecked(flag, openErrno) == [errno |-> openErrno, touched |-> 1]

\* OpenFile of part_000: its errno, and how often it reached openFile.
SysOpenFile(flag, openErrno) ==
    IF "O_DIRECTORY" \in flag /\ flag \cap {"O_WRONLY", "O_RDWR"} # {}
    THEN [errno |-> EISDIR, touched |-> 0]
    ELSE [errno |-> openErrno, touched |-> 1]

OpenOSFile(flag, openErrno) == SysOpenFile(flag, openErrno)

\* OpenFSFile: its errno, and how often it reached fs.Open.
OpenFSFile(flag, openErrno) ==
    IF "O_DIRECTORY" \in flag /\ flag \cap {"O_WRONLY", "O_RDWR"} # {}
    THEN [errno |-> EISDIR, touched |-> 0]
    ELSE [errno |-> openErrno, touched |-> 1]

\* The OpenFile of the filesystem handed to FSContext.OpenFile.
FSOpenFile(kind, flag, openErrno) ==
    IF kind = "dir" THEN OpenOSFile(flag, openErrno) ELSE OpenFSFile(flag, openErrno)

\* FSContext.OpenFile(fs, path, flag, perm) with fs of the given kind, whose
\* backing filesystem answers openErrno if asked.
Opening(kind, path, flag, openErrno) ==
    /\ opens < MaxOpens
    /\ opens' = opens + 1
    /\ openFlag' = flag
    /\ LET f == FSOpenFile(kind, flag, openErrno)
       IN  /\ fsOpens' = fsOpens + f.touched
           /\ OpenFile(path, f.errno)

NextOpen ==
    \/ \E kind \in FSKinds, path \in FSPaths, flag \in Flags, openErrno \in {OK, ENOENT} :
            Opening(kind, path, flag, openErrno) /\ UNCHANGED notOpen
    \/ \E fd \in Fds : CloseFile(fd) /\ UNCHANGED <<openVars, notOpen>>

(***************************************************************************)
(* ARM64 relocations.  part_007 holds more than one version of             *)
(* ResolveRelocations: the first writes a trampoline over the call site,   *)
(* the second branches to r.TrampolineOffset when that is above 0.  A      *)
(* module is compiled function by function, each with one call as its      *)
(* first instruction, and then its relocations are resolved.  What is      *)
(* written for a call is a record: the form of the instruction at the call *)
(* site, the 26-bit field of a BL, the address a trampoline loads and the  *)
(* offset the trampoline was written at.                                   *)
(***************************************************************************)
\* Most functions of a module.
MaxFuncs == 2

\* 1<<25, the bound on a BL's immediate.
BLImmBound == 33554432

\* The address of binary[0].
Base == 1048576

\* Sizes of function bodies: small ones, and ones that put the next function
\* at the edge of the BL range and just past it.
BodySizes == {8, 24, 4 * BLImmBound - 4, 4 * BLImmBound}

RelocBuilds == {"at the call site", "TrampolineOffset"}

NoTrampoline == 0

InitReloc ==
    /\ rBuild \in RelocBuilds
    /\ nFuncs \in 1..MaxFuncs
    /\ refToBinaryOffset = <<>>
    /\ totalSize = 0
    /\ relocations = <<>>
    /\ sites = <<>>
    /\ pcL = "compile"

\* machine.UpdateRelocationInfo: the relocation and the body it returns.
UpdateRelocationInfo(r, size, body) ==
    [r |-> [r EXCEPT !.Offset = @ + size], body |-> body]

\* A function is compiled and appended: its body, calling callee first thing.
Compile(body, callee) ==
    /\ pcL = "compile"
    /\ Len(refToBinaryOffset) < nFuncs
    /\ LET r0 == [Offset |-> 0, FuncRef |-> callee, TrampolineOffset |-> NoTrampoline]
           u == UpdateRelocationInfo(r0, totalSize, body)
       IN  /\ relocations' = Append(relocations, u.r)
           /\ refToBinaryOffset' = Append(refToBinaryOffset, totalSize)
           /\ totalSize' = totalSize + u.body
    /\ UNCHANGED <<rBuild, nFuncs, sites, pcL>>

\* Go's integer division, which rounds towards zero.
GoDiv(a, b) == IF a >= 0 THEN a \div b ELSE -((-a) \div b)

\* The 26-bit field the code writes into a BL for diff: the low 25 bits of
\* diff / 4 and the sign of diff above them.
EncodeBL(diff) ==
    LET imm26 == GoDiv(diff, 4)
        low24 == imm26 % 16777216
        bit24 == (imm26 \div 16777216) % 2
    IN  low24 + bit24 * 16777216 + (IF diff < 0 THEN BLImmBound ELSE 0)

\* The displacement a BL with this field branches by.
DecodeBL(field) == 4 * (IF field >= BLImmBound THEN field - 2 * BLImmBound ELSE field)

OutOfRange(diff) == diff < -BLImmBound * 4 \/ diff > (BLImmBound - 1) * 4

\* A ResolveRelocations that writes the BL whatever the displacement.
ResolveAlwaysBL(version, r, offsets) ==
    [form |-> "bl", field |-> EncodeBL(offsets[r.FuncRef] - r.Offset), loads |-> 0,
     trampolineAt |-> NoTrampoline]

\* One round of ResolveRelocations' loop, for relocation r.
ResolveOne(version, r, offsets) ==
    LET instrOffset == r.Offset
        calleeFnOffset == offsets[r.FuncRef]
        diff == calleeFnOffset - instrOffset
    IN  IF version = "at the call site"
        THEN IF OutOfRange(diff)
             THEN [form |-> "movz", field |-> 0, loads |-> Base + calleeFnOffset,
                   trampolineAt |-> instrOffset]
             ELSE [form |-> "bl", field |-> EncodeBL(diff), loads |-> 0,
                   trampolineAt |-> NoTrampoline]
        ELSE IF r.TrampolineOffset > 0
             THEN [form |-> "bl", field |-> EncodeBL(r.TrampolineOffset - instrOffset),
                   loads |-> Base + calleeFnOffset, trampolineAt |-> r.TrampolineOffset]
             ELSE [form |-> "bl", field |-> EncodeBL(diff), loads |-> 0,
                   trampolineAt |-> NoTrampoline]

\* machine.ResolveRelocations, once every function is compiled.
ResolveRelocations ==
    /\ pcL = "compile"
    /\ Len(refToBinaryOffset) = nFuncs
    /\ sites' = [k \in DOMAIN relocations |->
                    ResolveOne(rBuild, relocations[k], refToBinaryOffset)]
    /\ pcL' = "done"
    /\ UNCHANGED <<rBuild, nFuncs, refToBinaryOffset, totalSize, relocations>>

NextReloc ==
    \/ \E body \in BodySizes, callee \in 1..MaxFuncs :
            /\ callee <= nFuncs
            /\ Compile(body, callee)
            /\ UNCHANGED notReloc
    \/ ResolveRelocations /\ UNCHANGED notReloc

(***************************************************************************)
(* One call through ResolveRelocations and on the machine.  The versions   *)
(* that write a trampoline at r.TrampolineOffset are part_006, and in      *)
(* part_007 the one of line 88 and the one of line 164.  The call is       *)
(* resolved and then run: BL and BLR set the link register, RET branches   *)
(* to it.  The callee returns at once, and the instruction after the call  *)
(* ends the run.  encodeUnconditionalBranchReg, encodeUnconditionalBranch, *)
(* encodeMoveWideImmediate and encodeMov64 are not among the sources; by   *)
(* their use their flag says whether the branch links.                     *)
(***************************************************************************)
\* Instructions run before the run is cut off.
MaxSteps == 12

\* Where the callee far from the call is.
FarAt == 4 * BLImmBound + 64

\* Where the trampoline of the call is reserved.
TrampAt == 64

\* Size of the code near the call.
NearSize == 96

CodeAt == {4 * w : w \in 0..(NearSize \div 4)} \cup {FarAt}

CallVersions == {"part_006", "part_007:88", "part_007:164"}

Instr(op, a, b) == [op |-> op, a |-> a, b |-> b]

\* The instruction whose top six bits are opcode.
OpOf(opcode) ==
    CASE opcode = 37 -> "bl"
      [] opcode = 5 -> "b"
      [] OTHER -> "other"

\* The four bytes ResolveRelocations writes at a call site for diff.
WriteBL(diff) ==
    LET imm26 == GoDiv(diff, 4)
        low24 == imm26 % 16777216
        top == ((imm26 \div 16777216) % 2) + (IF diff < 0 THEN 150 ELSE 148)
    IN  Instr(OpOf(top \div 4), low24 + (top % 4) * 16777216, 0)

\* encodeUnconditionalBranch(link, imm): B or BL by imm bytes.
EncodeUnconditionalBranch(link, imm) ==
    Instr(IF link THEN "bl" ELSE "b", GoDiv(imm, 4) % (2 * BLImmBound), 0)

\* encodeUnconditionalBranchReg(tmpReg, link): BR or BLR.
EncodeUnconditionalBranchReg(link) == Instr(IF link THEN "blr" ELSE "br", 0, 0)

\* The 16-bit part of addr that a move with this shift loads.
Chunk(addr, shift) ==
    CASE shift = 0 -> addr % 65536
      [] shift = 1 -> (addr \div 65536) % 65536
      [] OTHER -> 0

\* The movz and three movk that load addr into tmpReg.
LoadAddress(addr) ==
    <<Instr("movz", Chunk(addr, 0), 0), Instr("movk", Chunk(addr, 1), 1),
      Instr("movk", Chunk(addr, 2), 2), Instr("movk", Chunk(addr, 3), 3)>>

\* A trampoline that branches with link whatever the version.
TrampolineLinking(version, addr, jumpBack) ==
    LoadAddress(addr) \o <<EncodeUnconditionalBranchReg(TRUE)>>

\* encodeTrampoline: the instructions it writes, in order.
Trampoline(version, addr, jumpBack) ==
    CASE version = "part_006" ->
            LoadAddress(addr) \o <<EncodeUnconditionalBranchReg(TRUE), Instr("mov", 0, 0),
                                   EncodeUnconditionalBranch(FALSE, jumpBack - 7 * 4)>>
      [] version = "part_007:88" ->
            LoadAddress(addr) \o <<EncodeUnconditionalBranchReg(FALSE)>>
      [] OTHER ->
            LoadAddress(addr) \o <<Instr("mov", 0, 0), EncodeUnconditionalBranchReg(TRUE),
                                   EncodeUnconditionalBranch(FALSE, -jumpBack - 7 * 4 + 8)>>

\* The code with the instructions written from offset at on.
WriteAt(c, at, instrs) ==
    [o \in DOMAIN c |->
        IF o >= at /\ o < at + 4 * Len(instrs) /\ (o - at) % 4 = 0
        THEN instrs[(o - at) \div 4 + 1] ELSE c[o]]

\* ResolveRelocations for the one relocation r.
Resolved(version, c, r, calleeFnOffset) ==
    LET instrOffset == r.Offset
        diff == calleeFnOffset - instrOffset
        toTrampoline == r.TrampolineOffset - instrOffset
        addr == Base + calleeFnOffset
    IN  CASE version = "part_006" ->
                WriteAt(WriteAt(c, r.TrampolineOffset,
                                Trampoline(version, addr, -toTrampoline + 8)),
                        instrOffset, <<WriteBL(toTrampoline)>>)
          [] version = "part_007:88" ->
                IF r.TrampolineOffset > 0
                THEN WriteAt(WriteAt(c, r.TrampolineOffset, Trampoline(version, addr, 0)),
                             instrOffset, <<WriteBL(toTrampoline)>>)
                ELSE WriteAt(c, instrOffset, <<WriteBL(diff)>>)
          [] OTHER ->
                WriteAt(WriteAt(c, instrOffset,
                                <<EncodeUnconditionalBranch(FALSE, toTrampoline)>>),
                        r.TrampolineOffset, Trampoline(version, addr, toTrampoline))

\* The code before the call is resolved: the callee returns at once.
Unresolved(site, callee) ==
    [o \in CodeAt |->
        CASE o = site -> Instr("bl", 0, 0)
          [] o = site + 4 -> Instr("next", 0, 0)
          [] o = callee -> Instr("ret", 0, 0)
          [] OTHER -> Instr("nop", 0, 0)]

InitCall ==
    /\ cVersion \in CallVersions
    /\ callSite \in {16, 32, 40}
    /\ calleeAt \in {0, 16, FarAt}
    /\ tOffset = IF cVersion = "part_007:88" THEN NoTrampoline ELSE TrampAt
    /\ code = Unresolved(callSite, calleeAt)
    /\ pc = callSite
    /\ lr = NearSize
    /\ tmpReg = <<0, 0, 0, 0>>
    /\ phase = "link"
    /\ steps = 0
    /\ thru = FALSE
    /\ rets = 0

\* machine.ResolveRelocations over the binary.
ResolveCall ==
    /\ phase = "link"
    /\ code' = Resolved(cVersion, code,
                        [Offset |-> callSite, FuncRef |-> 1, TrampolineOffset |-> tOffset],
                        calleeAt)
    /\ phase' = "run"
    /\ UNCHANGED <<cVersion, callSite, calleeAt, tOffset, pc, lr, tmpReg, steps, thru, rets>>

InTrampoline(o) == tOffset > 0 /\ o >= tOffset /\ o < tOffset + 28

\* The offset tmpReg points at.
Target(reg) == reg[1] + 65536 * reg[2] - Base

\* The machine runs the instruction at pc.
Step ==
    /\ phase = "run"
    /\ LET i == code[pc]
           to == CASE i.op \in {"bl", "b"} -> pc + DecodeBL(i.a)
                   [] i.op \in {"blr", "br"} -> Target(tmpReg)
                   [] i.op = "ret" -> lr
                   [] OTHER -> pc + 4
       IN  /\ lr' = IF i.op \in {"bl", "blr"} THEN pc + 4 ELSE lr
           /\ tmpReg' = CASE i.op = "movz" -> <<i.a, 0, 0, 0>>
                          [] i.op = "movk" -> [tmpReg EXCEPT ![i.b + 1] = i.a]
                          [] OTHER -> tmpReg
           /\ rets' = IF i.op = "ret" THEN rets + 1 ELSE rets
           /\ thru' = (thru \/ (rets = 0 /\ InTrampoline(pc)))
           /\ IF i.op = "next" \/ to \notin CodeAt \/ steps = MaxSteps
              THEN phase' = "halt" /\ UNCHANGED pc
              ELSE phase' = "run" /\ pc' = to
    /\ steps' = IF steps < MaxSteps THEN steps + 1 ELSE steps
    /\ UNCHANGED <<cVersion, callSite, calleeAt, tOffset, code>>

NextCall ==
    \/ ResolveCall /\ UNCHANGED notCall
    \/ Step /\ UNCHANGED notCall

(***************************************************************************)
(* Closing a socket file: tcpConnFile and tcpListenerFile of part_000,     *)
(* winTcpConnFile and winTcpListenerFile of sock_windows.go.  A socket     *)
(* file is its closed field, how often the OS was asked to close or fully  *)
(* shut down its socket, and the directions shut down one by one.          *)
(***************************************************************************)
\* Close and Shutdown(SHUT_RDWR) calls counted.
MaxCloseCalls == 4

SockKinds == {"tcpConnFile", "tcpListenerFile", "winTcpConnFile", "winTcpListenerFile"}

Hows == {"SHUT_RD", "SHUT_WR", "SHUT_RDWR", "other"}

NewSock == [closed |-> FALSE, osCloses |-> 0, half |-> {}]

InitConn ==
    /\ sKind \in SockKinds
    /\ sock = NewSock
    /\ closeCalls = 0
    /\ connLast = OK
    /\ closeRet = OK

\* The OS closes or fully shuts down the socket: it fails on a socket that
\* was closed before.
OsClose(s) ==
    [s |-> [s EXCEPT !.osCloses = @ + 1], errno |-> IF s.osCloses = 0 THEN OK ELSE EBADF]

\* The OS shuts down one direction.
OsShutdown(s, how) ==
    [s |-> [s EXCEPT !.half = @ \cup {how}], errno |-> IF s.osCloses = 0 THEN OK ELSE EBADF]

\* tcpConnFile.close
ConnClose(s) ==
    IF s.closed THEN [s |-> s, errno |-> OK]
    ELSE OsClose([s EXCEPT !.closed = TRUE])

\* tcpConnFile.Shutdown
ConnShutdown(s, how) ==
    CASE how \in {"SHUT_RD", "SHUT_WR"} -> OsShutdown(s, how)
      [] how = "SHUT_RDWR" -> ConnClose(s)
      [] OTHER -> [s |-> s, errno |-> EINVAL]

RECURSIVE WinConnClose(_), WinConnShutdown(_, _)
\* winTcpConnFile.close
WinConnClose(s) ==
    IF s.closed THEN [s |-> s, errno |-> OK]
    ELSE WinConnShutdown([s EXCEPT !.closed = TRUE], "SHUT_RDWR")

\* winTcpConnFile.Shutdown
WinConnShutdown(s, how) ==
    CASE how \in {"SHUT_RD", "SHUT_WR"} -> OsShutdown(s, how)
      [] how = "SHUT_RDWR" -> WinConnClose(s)
      [] OTHER -> [s |-> s, errno |-> EINVAL]

\* tcpListenerFile.Close
ListenerClose(s) == OsClose(s)

\* winTcpListenerFile.Close
WinListenerClose(s) ==
    IF ~s.closed THEN OsClose(s) ELSE [s |-> s, errno |-> OK]

\* Close on the socket file.
SockClose ==
    /\ closeCalls < MaxCloseCalls
    /\ LET r == CASE sKind = "tcpConnFile" -> ConnClose(sock)
                  [] sKind = "tcpListenerFile" -> ListenerClose(sock)
                  [] sKind = "winTcpConnFile" -> WinConnClose(sock)
                  [] OTHER -> WinListenerClose(sock)
       IN  sock' = r.s /\ connLast' = r.errno /\ closeRet' = r.errno
    /\ closeCalls' = closeCalls + 1
    /\ UNCHANGED sKind

\* Shutdown(how) on a connection.
SockShutdown(how) ==
    /\ sKind \in {"tcpConnFile", "winTcpConnFile"}
    /\ how = "SHUT_RDWR" => closeCalls < MaxCloseCalls
    /\ LET r == IF sKind = "tcpConnFile" THEN ConnShutdown(sock, how)
                ELSE WinConnShutdown(sock, how)
       IN  /\ sock' = r.s
           /\ connLast' = r.errno
           /\ closeRet' = IF how = "SHUT_RDWR" THEN r.errno ELSE closeRet
    /\ closeCalls' = IF how = "SHUT_RDWR" THEN closeCalls + 1 ELSE closeCalls
    /\ UNCHANGED sKind

NextConn ==
    \/ SockClose /\ UNCHANGED notConn
    \/ \E how \in Hows : SockShutdown(how) /\ UNCHANGED notConn

(***************************************************************************)
(* Labels of wazeroir (operations.go).  An unsigned integer is the set of  *)
(* the positions of its one bits, so that | and << are computed bit by     *)
(* bit and in the width of their operands.                                 *)
(***************************************************************************)
\* LabelID is a uint64; the frame ID is shifted by 32.
LabelIDWidth == 64
FrameIDShift == 32

\* The bits of a natural number below 2^8.
Bits(n) == {i \in 0..7 : (n \div (2 ^ i)) % 2 = 1}

LabelKindHeader == Bits(0)
LabelKindElse == Bits(1)
LabelKindContinuation == Bits(2)
LabelKindReturn == Bits(3)

\* LabelKind is a byte: the four kinds and the largest byte.
LabelKinds ==
    {LabelKindHeader, LabelKindElse, LabelKindContinuation, LabelKindReturn, Bits(255)}

\* Frame IDs are uint32: small ones, ones that reach into the bits of the
\* kind's byte and beyond, and the largest.
FrameIDs == {{}, {0}, {1}, {0, 1}, {8}, {31}, 0..31}

Labels == [FrameID : FrameIDs, Kind : LabelKinds]

\* x | y
BitOr(x, y) == x \cup y

\* x << n in an unsigned integer of the given width: bits shifted past the
\* width are lost.
ShiftLeft(x, n, width) == {b + n : b \in x} \cap (0..(width - 1))

\* LabelID(x): widening an unsigned integer keeps its bits.
ToLabelID(x) == x

\* The shift done in the width of FrameID, before the conversion.
LabelIDShiftedNarrow(l) ==
    BitOr(ToLabelID(l.Kind), ToLabelID(ShiftLeft(l.FrameID, FrameIDShift, 32)))

\* Label.ID
LabelID(l) ==
    BitOr(ToLabelID(l.Kind), ShiftLeft(ToLabelID(l.FrameID), FrameIDShift, LabelIDWidth))

InitLabel ==
    /\ labelA \in Labels
    /\ labelB \in Labels
    /\ labelIDs = <<>>

\* ID is taken of both labels.
TakeIDs ==
    /\ labelIDs = <<>>
    /\ labelIDs' = <<LabelID(labelA), LabelID(labelB)>>
    /\ UNCHANGED <<labelA, labelB>>
    /\ UNCHANGED notLabel

NextLabel == TakeIDs

(***************************************************************************)
(* windowedReaddir.Skip, run statement by statement on the cursor of a     *)
(* directory of skSize entries: the test of the loop, then the Advance of  *)
(* its body, then the test again.                                          *)
(***************************************************************************)
InitSkip ==
    \E n \in 0..MaxEntries :
        /\ skSize = n
        /\ skDir = NewWindowedReaddir(n)
        /\ skEnd = 0
        /\ skErr = OK
        /\ skPc = "idle"

\* Skip(n) is called: end := d.cursor + n; err := 0.
SkipCall(n) ==
    /\ skPc = "idle"
    /\ skEnd' = skDir.cursor + n
    /\ skErr' = OK
    /\ skPc' = "test"
    /\ UNCHANGED <<skSize, skDir>>

\* for d.cursor < end && err == 0: into the body, or out of Skip.
SkipTest ==
    /\ skPc = "test"
    /\ skPc' = IF skDir.cursor < skEnd /\ skErr = OK THEN "advance" ELSE "idle"
    /\ UNCHANGED <<skSize, skDir, skEnd, skErr>>

\* err = d.Advance()
SkipAdvance ==
    /\ skPc = "advance"
    /\ LET a == WindowedAdvance(skSize, skDir)
       IN  /\ skDir' = a.r
           /\ skErr' = a.errno
    /\ skPc' = "test"
    /\ UNCHANGED <<skSize, skEnd>>

\* The statements of a call of Skip that has begun.
SkipRuns == (SkipTest \/ SkipAdvance) /\ UNCHANGED notSkip

NextSkip ==
    \/ \E n \in 1..MaxSkip : SkipCall(n) /\ UNCHANGED notSkip
    \/ SkipTest /\ UNCHANGED notSkip
    \/ SkipAdvance /\ UNCHANGED notSkip

(***************************************************************************)
(* tcpConnFile.Write of part_000 on one connection.  sysErr is what        *)
(* syscall.Write returns: OK for nil with the count of bytes written, or   *)
(* an errno with the count -1.                                             *)
(***************************************************************************)
\* Longest buffer given to Write.
MaxBuf == 3
\* Most Write calls made.
MaxWrites == 3

NoWrite == [op |-> "none", len |-> 0, sysN |-> 0, sysErr |-> OK, n |-> 0, errno |-> OK]

InitWrite ==
    /\ tcClosed = FALSE
    /\ tcSent = 0
    /\ tcWrites = 0
    /\ tcLast = NoWrite

\* tcpConnFile.IsDir
TcpConnIsDir == [isDir |-> FALSE, errno |-> OK]

\* validate
Validate(isDir, isClosed, wantFile, wantDir) ==
    IF isClosed THEN EBADF
    ELSE IF isDir.errno # OK THEN isDir.errno
    ELSE IF wantFile /\ isDir.isDir THEN EISDIR
    ELSE IF wantDir /\ ~isDir.isDir THEN ENOTDIR
    ELSE OK

\* fileError
FileError(isDir, isClosed, errno) ==
    LET vErrno == Validate(isDir, isClosed, TRUE, FALSE)
    IN  IF vErrno # OK THEN vErrno ELSE errno

\* tcpConnFile.Write, given what syscall.Write returned: errno is the named
\* result, zero when fileError is given it.
TcpConnWrite(isClosed, sysN, sysErr) ==
    LET errno == OK
    IN  IF sysErr # OK
        THEN [n |-> sysN, errno |-> FileError(TcpConnIsDir, isClosed, errno)]
        ELSE [n |-> sysN, errno |-> errno]

\* What syscall.Write may return for a buffer of len bytes: on a socket shut
\* down by close it fails; otherwise it writes some of the bytes, or fails
\* with EAGAIN when the socket's buffer is full.
SysWrites(isClosed, len) ==
    IF isClosed THEN {[n |-> -1, err |-> EBADF]}
    ELSE {[n |-> k, err |-> OK] : k \in (IF len = 0 THEN {0} ELSE 1..len)}
            \cup {[n |-> -1, err |-> EAGAIN]}

\* One call of Write.
WriteCall(len) ==
    /\ tcWrites < MaxWrites
    /\ \E w \in SysWrites(tcClosed, len) :
           LET r == TcpConnWrite(tcClosed, w.n, w.err)
           IN  /\ tcLast' = [op |-> "Write", len |-> len, sysN |-> w.n, sysErr |-> w.err,
                             n |-> r.n, errno |-> r.errno]
               /\ tcSent' = IF w.err = OK THEN tcSent + w.n ELSE tcSent
    /\ tcWrites' = tcWrites + 1
    /\ UNCHANGED tcClosed

\* tcpConnFile.Close
WriteClose ==
    /\ ~tcClosed
    /\ tcClosed' = TRUE
    /\ tcLast' = [NoWrite EXCEPT !.op = "Close"]
    /\ UNCHANGED <<tcSent, tcWrites>>

NextWrite ==
    \/ \E len \in 0..MaxBuf : WriteCall(len) /\ UNCHANGED notWrite
    \/ WriteClose /\ UNCHANGED notWrite

(***************************************************************************)
(* FdSet and WinSockFdSet of part_012.  A WinSockFdSet is the sequence of  *)
(* its first `count` handles.                                              *)
(***************************************************************************)
FD_SETSIZE == 64
\* Most handles a set of the model holds.
MaxCount == 3

\* The handles given, and those of them that isSocket finds to be sockets.
Handles == 1..4
SocketHandles == {1, 2}

isSocket(h) == h \in SocketHandles

\* WinSockFdSet.Set
WinSockSet(f, fd) == IF Len(f) < FD_SETSIZE THEN Append(f, fd) ELSE f

\* The index of the first slot holding h, or 0.
FirstAt(f, h) ==
    IF \E i \in 1..Len(f) : f[i] = h
    THEN CHOOSE i \in 1..Len(f) : f[i] = h /\ \A k \in 1..(i - 1) : f[k] # h
    ELSE 0

\* WinSockFdSet.Clear: the first slot holding the handle is removed and the
\* slots after it move down.
WinSockClear(f, fd) ==
    IF ~isSocket(fd) THEN f
    ELSE LET i == FirstAt(f, fd)
         IN  IF i = 0 THEN f
             ELSE [k \in 1..(Len(f) - 1) |-> IF k < i THEN f[k] ELSE f[k + 1]]

\* WinSockFdSet.IsSet
WinSockIsSet(f, fd) ==
    IF ~isSocket(fd) THEN FALSE
    ELSE \E i \in 1..Len(f) : f[i] = fd

\* WinSockFdSet.Zero
WinSockZero(f) == <<>>

\* FdSet.Set
FdSetSet(f, fd) ==
    IF isSocket(fd) THEN [f EXCEPT !.sockets = WinSockSet(f.sockets, fd)]
    ELSE [f EXCEPT !.regular = WinSockSet(f.regular, fd)]

\* FdSet.Clear
FdSetClear(f, fd) ==
    IF isSocket(fd) THEN [f EXCEPT !.sockets = WinSockClear(f.sockets, fd)]
    ELSE [f EXCEPT !.regular = WinSockClear(f.regular, fd)]

\* FdSet.IsSet
FdSetIsSet(f, fd) ==
    IF isSocket(fd) THEN WinSockIsSet(f.sockets, fd)
    ELSE WinSockIsSet(f.regular, fd)

\* FdSet.Zero
FdSetZero(f) == [sockets |-> WinSockZero(f.sockets), regular |-> WinSockZero(f.regular)]

NoFdCall == [op |-> "none", fd |-> 0]

InitFdSet ==
    /\ fdSet = [sockets |-> <<>>, regular |-> <<>>]
    /\ fdLast = NoFdCall

SetCall(fd) ==
    /\ Len(fdSet.sockets) + Len(fdSet.regular) < MaxCount
    /\ fdSet' = FdSetSet(fdSet, fd)
    /\ fdLast' = [op |-> "Set", fd |-> fd]

ClearCall(fd) ==
    /\ fdSet' = FdSetClear(fdSet, fd)
    /\ fdLast' = [op |-> "Clear", fd |-> fd]

ZeroCall ==
    /\ fdSet' = FdSetZero(fdSet)
    /\ fdLast' = [op |-> "Zero", fd |-> 0]

NextFdSet ==
    \/ \E fd \in Handles : SetCall(fd) /\ UNCHANGED notFdSet
    \/ \E fd \in Handles : ClearCall(fd) /\ UNCHANGED notFdSet
    \/ ZeroCall /\ UNCHANGED notFdSet

(***************************************************************************)
(* fsFile.Read and fsFile.Pread of part_000 over an fs.File that is an     *)
(* io.ReaderAt, an io.ReadSeeker or neither.  The file is a regular file   *)
(* that stays open.                                                        *)
(***************************************************************************)
EIO == "EIO"

\* The longest file and the longest buffer of the model.
MaxFileSize == 3
MaxPreadLen == 2

PreadKinds == {"readerAt", "readSeeker", "reader"}
PreadOffsets == (0 - 1)..MaxFileSize

NoPread == [op |-> "none", n |-> 0, errno |-> OK, off |-> 0]

\* The bytes a read of len bytes at position pos can return.
Available(pos, size, len) == IF pos >= size THEN 0 ELSE Min(len, size - pos)

\* io.Seeker.Seek(target, io.SeekStart): seeking to an offset before the
\* start of the file is an error; a file that cannot seek refuses every call.
\* A refused Seek leaves the position where it was.
SeekStart(pos, target, canSeek) ==
    IF canSeek /\ target >= 0 THEN [pos |-> target, errno |-> OK]
    ELSE [pos |-> pos, errno |-> EINVAL]

\* io.Seeker.Seek(0, io.SeekCurrent)
SeekCurrent(pos, canSeek) ==
    IF canSeek THEN [pos |-> pos, errno |-> OK]
    ELSE [pos |-> pos, errno |-> EINVAL]

\* fsFile.IsDir of a regular file
FsFileIsDir == [isDir |-> FALSE, errno |-> OK]

\* RestoreOffset without the deferred Seek: the read position is not put back.
RestoreOffsetDropped(pos, currentOffset, canSeek) == pos

\* The position the deferred Seek of Pread leaves the file at.
RestoreOffset(pos, currentOffset, canSeek) == SeekStart(pos, currentOffset, canSeek).pos

\* fsFile.Pread through the io.ReadSeeker fallback: rdN and rdErr are what
\* rs.Read returns.  The result is n, errno and the position of the file.
PreadSeeker(pos, canSeek, off, rdN, rdErr) ==
    LET cur == SeekCurrent(pos, canSeek)
    IN  IF cur.errno # OK
        THEN [n |-> 0, errno |-> FileError(FsFileIsDir, FALSE, cur.errno), pos |-> cur.pos]
        ELSE LET currentOffset == cur.pos
                 moved == IF off # currentOffset THEN SeekStart(cur.pos, off, canSeek)
                          ELSE [pos |-> cur.pos, errno |-> OK]
             IN  IF moved.errno # OK
                 THEN [n |-> 0, errno |-> FileError(FsFileIsDir, FALSE, moved.errno),
                       pos |-> RestoreOffset(moved.pos, currentOffset, canSeek)]
                 ELSE [n |-> rdN,
                       errno |-> IF rdErr # OK THEN FileError(FsFileIsDir, FALSE, rdErr) ELSE OK,
                       pos |-> RestoreOffset(moved.pos + rdN, currentOffset, canSeek)]

\* fsFile.Pread
Pread(kind, pos, canSeek, len, off, rdN, rdErr) ==
    IF kind = "readerAt"
    THEN IF len = 0 THEN [n |-> 0, errno |-> OK, pos |-> pos]
         ELSE [n |-> rdN,
               errno |-> IF rdErr # OK THEN FileError(FsFileIsDir, FALSE, rdErr) ELSE OK,
               pos |-> pos]
    ELSE IF kind = "readSeeker" THEN PreadSeeker(pos, canSeek, off, rdN, rdErr)
    ELSE [n |-> 0, errno |-> ENOSYS, pos |-> pos]

InitPread ==
    /\ prKind \in PreadKinds
    /\ prCanSeek \in BOOLEAN
    /\ prSize \in 0..MaxFileSize
    /\ prPos = 0
    /\ prLast = NoPread

\* fsFile.Pread(buf, off) with len(buf) = len
PreadCall(len, off) ==
    \E rdN \in 0..Available(off, prSize, len), rdErr \in {OK, EIO} :
        LET r == Pread(prKind, prPos, prCanSeek, len, off, rdN, rdErr)
        IN  /\ prPos' = r.pos
            /\ prLast' = [op |-> "Pread", n |-> r.n, errno |-> r.errno, off |-> off]
            /\ UNCHANGED <<prKind, prCanSeek, prSize>>

\* fsFile.Read(buf) with len(buf) = len: the read position moves past the
\* bytes read.
PreadReadCall(len) ==
    \E rdN \in 0..Available(prPos, prSize, len), rdErr \in {OK, EIO} :
        LET n == IF len = 0 THEN 0 ELSE rdN
            errno == IF len = 0 \/ rdErr = OK THEN OK ELSE FileError(FsFileIsDir, FALSE, rdErr)
        IN  /\ prPos' = prPos + n
            /\ prLast' = [op |-> "Read", n |-> n, errno |-> errno, off |-> prPos]
            /\ UNCHANGED <<prKind, prCanSeek, prSize>>

NextPread ==
    \/ \E len \in 0..MaxPreadLen, off \in PreadOffsets : PreadCall(len, off) /\ UNCHANGED notPread
    \/ \E len \in 0..MaxPreadLen : PreadReadCall(len) /\ UNCHANGED notPread

(***************************************************************************)
(* utimens of utimes_linux.go and futimens_darwin.go on a file and a       *)
(* symbolic link to it; a third path names nothing.  The file and the link *)
(* have one timestamp each.                                                *)
(***************************************************************************)
\* _AT_SYMLINK_NOFOLLOW on Linux and on Darwin
LinuxAtSymlinkNoFollow == 256
DarwinAtSymlinkNoFollow == 32

\* The latest timestamp set.
MaxStamp == 3

UtOSes == {"linux", "darwin"}
UtPaths == {"file", "link", "nope"}

NoUtimens ==
    [op |-> "none", path |-> "file", symlinkFollow |-> FALSE, flags |-> 0, errno |-> OK]

AtSymlinkNoFollow(os) ==
    IF os = "linux" THEN LinuxAtSymlinkNoFollow ELSE DarwinAtSymlinkNoFollow

\* utimens of utimes_linux.go: the flags it gives utimensat
UtimensLinux(symlinkFollow) ==
    LET flags == LinuxAtSymlinkNoFollow
    IN  IF ~symlinkFollow THEN 0 ELSE flags

\* utimens of futimens_darwin.go: the flags it gives utimensat
UtimensDarwin(symlinkFollow) ==
    LET flags == 0
    IN  IF ~symlinkFollow THEN DarwinAtSymlinkNoFollow ELSE flags

\* utimens of the platform built for
Utimens(os, symlinkFollow) ==
    IF os = "linux" THEN UtimensLinux(symlinkFollow) ELSE UtimensDarwin(symlinkFollow)

\* utimensat(2): with AT_SYMLINK_NOFOLLOW a path that is a symbolic link has
\* its own timestamp set, and otherwise the file it points to.  A path that
\* names nothing is refused.
Utimensat(os, times, path, t, flags) ==
    IF path = "nope" THEN [times |-> times, errno |-> ENOENT]
    ELSE IF path = "link" /\ flags = AtSymlinkNoFollow(os)
    THEN [times |-> [times EXCEPT !.link = t], errno |-> OK]
    ELSE [times |-> [times EXCEPT !.file = t], errno |-> OK]

InitUtimens ==
    /\ utOS \in UtOSes
    /\ utTimes = [file |-> 0, link |-> 0]
    /\ utLast = NoUtimens

\* utimens(path, times, symlinkFollow)
UtimensCall(path, t, symlinkFollow) ==
    LET flags == Utimens(utOS, symlinkFollow)
        r == Utimensat(utOS, utTimes, path, t, flags)
    IN  /\ utTimes' = r.times
        /\ utLast' = [op |-> "utimens", path |-> path, symlinkFollow |-> symlinkFollow,
                      flags |-> flags, errno |-> r.errno]
        /\ UNCHANGED utOS

NextUtimens ==
    \E path \in UtPaths, t \in 1..MaxStamp, symlinkFollow \in BOOLEAN :
        UtimensCall(path, t, symlinkFollow) /\ UNCHANGED notUtimens

(***************************************************************************)
(* The specifications.  Each runs one subsystem and leaves the others as   *)
(* they were made.                                                         *)
(***************************************************************************)
IdleFS ==
    /\ openedFiles = EmptyTable
    /\ readdirs = EmptyTable
    /\ files = <<>>
    /\ ctxClosed = FALSE
    /\ config = [rootFS |-> "unimplemented", guestPaths |-> <<>>, tcpListeners |-> 0]
    /\ last = NoCall

IdleReaddir ==
    /\ dirSize = 0
    /\ first = NewReaddirFromSlice(<<Dot, DotDot>>)
    /\ second = FileReaddir("slice", 0)
    /\ current = "first"
    /\ rdLast = RdCall("LookupReaddir", 0, OK, NoDirent)
    /\ origin = "new"
    /\ expect = "peek"
    /\ seen = <<>>
    /\ prevCookie = -1

IdleNb ==
    /\ pcR = "idle"
    /\ pcA = "recv"
    /\ lenP = 0
    /\ msg = NoReq
    /\ rsp = NoResp
    /\ rr = NoResp
    /\ arrived = 0
    /\ eof = FALSE
    /\ consumed = 0
    /\ reads = 0
    /\ closed = FALSE
    /\ nbLast = NoRead

IdlePoll ==
    /\ subs = <<>>
    /\ stdin = [open |-> FALSE, tty |-> FALSE, stdio |-> FALSE, readByte |-> "blocks",
                writer |-> FALSE]
    /\ pcP = "returned"
    /\ nextSub = 1
    /\ tasks = <<>>
    /\ now = 0
    /\ outBuf = <<>>
    /\ nevents = 0
    /\ pollRet = NoPollRet

IdleSelect ==
    /\ build = "part_004"
    /\ selFn = "pollNamedPipes"
    /\ nfds = 0
    /\ duration = 0
    /\ pipes = <<>>
    /\ pipes0 = <<>>
    /\ dataAt = NoData
    /\ rCount = 0
    /\ cancelled = FALSE
    /\ selNow = 0
    /\ nextTick = 0
    /\ pcS = "returned"
    /\ selRet = NoSelRet

IdleSock ==
    /\ nonblocking = {}
    /\ pending = [id \in FileIds |-> 0]
    /\ accepts = 0
    /\ acceptIn = NoAccept

IdleOpen ==
    /\ openFlag = {}
    /\ fsOpens = 0
    /\ opens = 0

IdleReloc ==
    /\ rBuild = "TrampolineOffset"
    /\ nFuncs = 0
    /\ refToBinaryOffset = <<>>
    /\ totalSize = 0
    /\ relocations = <<>>
    /\ sites = <<>>
    /\ pcL = "done"

IdleCall ==
    /\ cVersion = "part_006"
    /\ callSite = 0
    /\ calleeAt = 0
    /\ tOffset = 0
    /\ code = <<>>
    /\ pc = 0
    /\ lr = 0
    /\ tmpReg = <<0, 0, 0, 0>>
    /\ phase = "halt"
    /\ steps = 0
    /\ thru = FALSE
    /\ rets = 0

IdleConn ==
    /\ sKind = "tcpConnFile"
    /\ sock = NewSock
    /\ closeCalls = 0
    /\ connLast = OK
    /\ closeRet = OK

IdleLabel ==
    /\ labelA = [FrameID |-> {}, Kind |-> {}]
    /\ labelB = [FrameID |-> {}, Kind |-> {}]
    /\ labelIDs = <<>>

IdleSkip ==
    /\ skSize = 0
    /\ skDir = NewWindowedReaddir(0)
    /\ skEnd = 0
    /\ skErr = OK
    /\ skPc = "idle"

IdleWrite ==
    /\ tcClosed = FALSE
    /\ tcSent = 0
    /\ tcWrites = 0
    /\ tcLast = NoWrite

IdleFdSet ==
    /\ fdSet = [sockets |-> <<>>, regular |-> <<>>]
    /\ fdLast = NoFdCall

IdlePread ==
    /\ prKind = "reader"
    /\ prCanSeek = FALSE
    /\ prSize = 0
    /\ prPos = 0
    /\ prLast = NoPread

IdleUtimens ==
    /\ utOS = "linux"
    /\ utTimes = [file |-> 0, link |-> 0]
    /\ utLast = NoUtimens

InitSpecFS ==
    InitFS /\ IdleReaddir /\ IdleNb /\ IdlePoll /\ IdleSelect /\ IdleSock /\ IdleOpen /\ IdleReloc /\ IdleCall /\ IdleConn /\ IdleLabel /\ IdleSkip /\ IdleWrite /\ IdleFdSet /\ IdlePread /\ IdleUtimens

SpecFS == InitSpecFS /\ [][NextFS]_vars

InitSpecReaddir ==
    IdleFS /\ InitReaddir /\ IdleNb /\ IdlePoll /\ IdleSelect /\ IdleSock /\ IdleOpen /\ IdleReloc /\ IdleCall /\ IdleConn /\ IdleLabel /\ IdleSkip /\ IdleWrite /\ IdleFdSet /\ IdlePread /\ IdleUtimens

SpecReaddir == InitSpecReaddir /\ [][NextReaddir]_vars

InitSpecNb ==
    IdleFS /\ IdleReaddir /\ InitNb /\ IdlePoll /\ IdleSelect /\ IdleSock /\ IdleOpen /\ IdleReloc /\ IdleCall /\ IdleConn /\ IdleLabel /\ IdleSkip /\ IdleWrite /\ IdleFdSet /\ IdlePread /\ IdleUtimens

SpecNb == InitSpecNb /\ [][NextNb]_vars

InitSpecPoll ==
    IdleFS /\ IdleReaddir /\ IdleNb /\ InitPoll /\ IdleSelect /\ IdleSock /\ IdleOpen /\ IdleReloc /\ IdleCall /\ IdleConn /\ IdleLabel /\ IdleSkip /\ IdleWrite /\ IdleFdSet /\ IdlePread /\ IdleUtimens

SpecPoll == InitSpecPoll /\ [][NextPoll]_vars

InitSpecSelect ==
    IdleFS /\ IdleReaddir /\ IdleNb /\ IdlePoll /\ InitSelect /\ IdleSock /\ IdleOpen /\ IdleReloc /\ IdleCall /\ IdleConn /\ IdleLabel /\ IdleSkip /\ IdleWrite /\ IdleFdSet /\ IdlePread /\ IdleUtimens

SpecSelect == InitSpecSelect /\ [][NextSelect]_vars

InitSpecSock ==
    InitSock /\ IdleReaddir /\ IdleNb /\ IdlePoll /\ IdleSelect /\ IdleOpen /\ IdleReloc /\ IdleCall /\ IdleConn /\ IdleLabel /\ IdleSkip /\ IdleWrite /\ IdleFdSet /\ IdlePread /\ IdleUtimens

SpecSock == InitSpecSock /\ [][NextSock]_vars

InitSpecOpen ==
    InitOpen /\ IdleReaddir /\ IdleNb /\ IdlePoll /\ IdleSelect /\ IdleSock /\ IdleReloc /\ IdleCall /\ IdleConn /\ IdleLabel /\ IdleSkip /\ IdleWrite /\ IdleFdSet /\ IdlePread /\ IdleUtimens

SpecOpen == InitSpecOpen /\ [][NextOpen]_vars

InitSpecReloc ==
    IdleFS /\ IdleReaddir /\ IdleNb /\ IdlePoll /\ IdleSelect /\ IdleSock /\ IdleOpen /\ InitReloc /\ IdleCall /\ IdleConn /\ IdleLabel /\ IdleSkip /\ IdleWrite /\ IdleFdSet /\ IdlePread /\ IdleUtimens

SpecReloc == InitSpecReloc /\ [][NextReloc]_vars

InitSpecCall ==
    IdleFS /\ IdleReaddir /\ IdleNb /\ IdlePoll /\ IdleSelect /\ IdleSock /\ IdleOpen /\ IdleReloc /\ InitCall /\ IdleConn /\ IdleLabel /\ IdleSkip /\ IdleWrite /\ IdleFdSet /\ IdlePread /\ IdleUtimens

SpecCall == InitSpecCall /\ [][NextCall]_vars

InitSpecConn ==
    IdleFS /\ IdleReaddir /\ IdleNb /\ IdlePoll /\ IdleSelect /\ IdleSock /\ IdleOpen /\ IdleReloc /\ IdleCall /\ InitConn /\ IdleLabel /\ IdleSkip /\ IdleWrite /\ IdleFdSet /\ IdlePread /\ IdleUtimens

SpecConn == InitSpecConn /\ [][NextConn]_vars

InitSpecLabel ==
    IdleFS /\ IdleReaddir /\ IdleNb /\ IdlePoll /\ IdleSelect /\ IdleSock /\ IdleOpen /\ IdleReloc /\ IdleCall /\ IdleConn /\ InitLabel /\ IdleSkip /\ IdleWrite /\ IdleFdSet /\ IdlePread /\ IdleUtimens

SpecLabel == InitSpecLabel /\ [][NextLabel]_vars

InitSpecDesc ==
    InitDesc /\ IdleReaddir /\ IdleNb /\ IdlePoll /\ IdleSelect /\ IdleSock /\ IdleOpen /\ IdleReloc /\ IdleCall /\ IdleConn /\ IdleLabel /\ IdleSkip /\ IdleWrite /\ IdleFdSet /\ IdlePread /\ IdleUtimens

SpecDesc == InitSpecDesc /\ [][NextDesc]_vars

InitSpecSkip ==
    IdleFS /\ IdleReaddir /\ IdleNb /\ IdlePoll /\ IdleSelect /\ IdleSock /\ IdleOpen /\ IdleReloc /\ IdleCall /\ IdleConn /\ IdleLabel /\ InitSkip /\ IdleWrite /\ IdleFdSet /\ IdlePread /\ IdleUtimens

SpecSkip == InitSpecSkip /\ [][NextSkip]_vars

InitSpecWrite ==
    IdleFS /\ IdleReaddir /\ IdleNb /\ IdlePoll /\ IdleSelect /\ IdleSock /\ IdleOpen /\ IdleReloc /\ IdleCall /\ IdleConn /\ IdleLabel /\ IdleSkip /\ InitWrite /\ IdleFdSet /\ IdlePread /\ IdleUtimens

SpecWrite == InitSpecWrite /\ [][NextWrite]_vars

InitSpecFdSet ==
    IdleFS /\ IdleReaddir /\ IdleNb /\ IdlePoll /\ IdleSelect /\ IdleSock /\ IdleOpen /\ IdleReloc /\ IdleCall /\ IdleConn /\ IdleLabel /\ IdleSkip /\ IdleWrite /\ InitFdSet /\ IdlePread /\ IdleUtimens

SpecFdSet == InitSpecFdSet /\ [][NextFdSet]_vars

InitSpecPread ==
    IdleFS /\ IdleReaddir /\ IdleNb /\ IdlePoll /\ IdleSelect /\ IdleSock /\ IdleOpen /\ IdleReloc /\ IdleCall /\ IdleConn /\ IdleLabel /\ IdleSkip /\ IdleWrite /\ IdleFdSet /\ InitPread /\ IdleUtimens

SpecPread == InitSpecPread /\ [][NextPread]_vars

InitSpecUtimens ==
    IdleFS /\ IdleReaddir /\ IdleNb /\ IdlePoll /\ IdleSelect /\ IdleSock /\ IdleOpen /\ IdleReloc /\ IdleCall /\ IdleConn /\ IdleLabel /\ IdleSkip /\ IdleWrite /\ IdleFdSet /\ IdlePread /\ InitUtimens

SpecUtimens == InitSpecUtimens /\ [][NextUtimens]_vars

\* A call of Skip that has begun runs on: the thread that called it is not
\* stopped.
SpecSkipFair == SpecSkip /\ WF_vars(SkipRuns)

(***************************************************************************)
(* Properties of the descriptor table.                                     *)
(***************************************************************************)
\* The lowest descriptor that is not in table t.
LowestFree(t) ==
    CHOOSE fd \in 0..Cardinality(DOMAIN t) :
        /\ fd \notin DOMAIN t
        /\ \A k \in 0..(fd - 1) : k \in DOMAIN t

OpenedNow == last'.op = "OpenFile" /\ last'.errno = OK

\* The entry a successful OpenFile made is at the descriptor it returned.
OpenedAt(fd) ==
    /\ fd \notin DOMAIN openedFiles
    /\ fd \in DOMAIN openedFiles'
    /\ openedFiles'[fd].File = Len(files')
    /\ \A k \in DOMAIN openedFiles : k \in DOMAIN openedFiles' /\ openedFiles'[k] = openedFiles[k]

C2_ClosedExactlyOnce ==
    \A id \in 1..Len(files) :
        IF InTable(id) THEN files[id].closes = 0 ELSE files[id].closes = 1

\* The descriptors NewFSContext filled, for the configuration it was given.
Layout ==
    LET n == Len(config.guestPaths)
        l == config.tcpListeners
    IN  /\ DOMAIN openedFiles = 0..(2 + n + l)
        /\ openedFiles[FdStdin].Name = "stdin"
        /\ openedFiles[FdStdout].Name = "stdout"
        /\ openedFiles[FdStderr].Name = "stderr"
        /\ \A fd \in {FdStdin, FdStdout, FdStderr} :
               files[openedFiles[fd].File].type = "stdio"
        /\ \A i \in 1..n :
               /\ openedFiles[FdPreopen + i - 1].Name = config.guestPaths[i]
               /\ files[openedFiles[FdPreopen + i - 1].File].type = "lazyDir"
        /\ \A j \in 1..l :
               files[openedFiles[FdPreopen + n + j - 1].File].type = "listener"
        /\ \A fd \in DOMAIN openedFiles : \A k \in DOMAIN openedFiles :
               openedFiles[fd].File = openedFiles[k].File => fd = k

AfterNewFSContext == last = NoCall

Expected(n) == <<Dot, DotDot>> \o [i \in 1..n |-> i]

IsPrefix(a, b) == Len(a) <= Len(b) /\ \A i \in 1..Len(a) : a[i] = b[i]

\* The step is the call Rewind(c).
RewindStep(c) == rdLast'.op = "Rewind" /\ rdLast'.arg = c

\* C4: the cursor LookupReaddir returns, read with Peek then Advance until Peek
\* returns ENOENT, yields ".", "..", then every entry of the directory once
\* and in the backing order, whatever the directory's size, and the same again
\* when the read starts over with Rewind(0).
C4_ReadsDotsThenEntries ==
    origin # "other" =>
        /\ IsPrefix(seen, Expected(dirSize))
        /\ expect = "done" => seen = Expected(dirSize)

\* A directory of more than two windows, read to its end after a Rewind(0).
C4_Witness ==
    /\ origin = "rewind0"
    /\ expect = "done"
    /\ second.kind = "windowed"
    /\ dirSize > 2 * direntBufSize
    /\ Len(seen) = dirSize + 2

\* C5: in a forward read (Peek then Advance, no Rewind or Reset in between)
\* Cookie() at each entry peeked is strictly greater than at the entry peeked
\* before it.
C5_CookiesIncrease ==
    [][(rdLast'.op = "Peek" /\ rdLast'.errno = OK /\ expect = "peek" /\ prevCookie # -1)
        => Cookie' > prevCookie]_vars

\* A forward read has peeked an entry of the second window.
C5_Witness ==
    /\ rdLast.op = "Peek"
    /\ rdLast.errno = OK
    /\ second.kind = "windowed"
    /\ prevCookie = Cookie
    /\ prevCookie > direntBufSize + 2
    /\ rdLast.dirent = prevCookie - 1

\* The entries the cursor holds: the two of its first part and those of the
\* window (or slice) of its second.
Held ==
    IF second.kind = "windowed"
    THEN {first.dirents[i] : i \in 1..Len(first.dirents)}
            \cup {second.window.dirents[i] : i \in 1..Len(second.window.dirents)}
    ELSE {first.dirents[i] : i \in 1..Len(first.dirents)}
            \cup {second.dirents[i] : i \in 1..Len(second.dirents)}

\* C6: in a read from the start, Rewind(c) with 0 < c < Cookie() to an entry
\* the cursor holds succeeds, leaves Cookie() = c and the next Peek returns the
\* entry at position c.
C6_RewindWithinWindow ==
    [][\A c \in Cookies :
        (/\ RewindStep(c)
         /\ origin # "other"
         /\ 0 < c /\ c < Cookie
         /\ Expected(dirSize)[c + 1] \in Held)
        => /\ rdLast'.errno = OK
           /\ Cookie' = c
           /\ ConcatPeek(dirSize, Cursor').dirent = Expected(dirSize)[c + 1]]_vars

\* The cookie of the directory's cursor that Rewind(c) addresses.
DirCookie(c) == c - SliceCookie(first)

Window(k) == k \div direntBufSize

\* c is a non-zero cookie of the directory in a window before the one the
\* cursor's position is in.
InOlderWindow(c) ==
    /\ second.kind = "windowed"
    /\ DirCookie(c) > 0
    /\ Window(DirCookie(c)) < Window(second.cursor)

\* C7 as stated: Rewind to a non-zero cookie older than the current window
\* fails with EINVAL.
C7_OlderWindowEINVAL ==
    [][\A c \in Cookies : (RewindStep(c) /\ InOlderWindow(c)) => rdLast'.errno = EINVAL]_vars

\* C7: Rewind to a non-zero cookie in a window older than the one the cursor's
\* position is in fails with ENOSYS and leaves the cursor where it was.
C7_OlderWindowENOSYS ==
    [][\A c \in Cookies :
        (RewindStep(c) /\ InOlderWindow(c))
        => /\ rdLast'.errno = ENOSYS
           /\ Cursor' = Cursor]_vars

\* A Rewind from the second window or later to an entry of an older one failed.
C7_Witness ==
    /\ rdLast.op = "Rewind"
    /\ rdLast.errno = ENOSYS
    /\ second.kind = "windowed"
    /\ DirCookie(rdLast.arg) > 0
    /\ Window(DirCookie(rdLast.arg)) < Window(second.cursor)

\* The position in the directory of the first entry of the window held: the
\* stream is just after the window's last entry.
WindowBase == second.pos - Len(second.window.dirents)

\* C8: in a read from the start, Rewind to a non-zero cookie of an entry that
\* lies before the window the cursor holds fails with ENOSYS.
C8_BeforeWindowENOSYS ==
    [][\A c \in Cookies :
        (/\ RewindStep(c)
         /\ origin # "other"
         /\ second.kind = "windowed"
         /\ DirCookie(c) > 0
         /\ DirCookie(c) < second.cursor
         /\ DirCookie(c) < WindowBase)
        => rdLast'.errno = ENOSYS]_vars

(***************************************************************************)
(* Properties of nbreader.                                                 *)
(***************************************************************************)
\* C9: no Read blocks: while a Read is in progress the caller or readAsync
\* can take a step, whatever the underlying reader does, so that the call goes
\* on to return data or EAGAIN.
C9_ReadNeverBlocks == pcR # "idle" => ENABLED (NbStep /\ UNCHANGED notNb)

\* C10: a Read called with bytes ready returns without error at least those
\* bytes, up to len(p) of them; a Read that returns while the underlying
\* reader has produced nothing returns 0 and EAGAIN.
C10_ReadResult ==
    nbLast.op = "Read" =>
        /\ nbLast.ready > 0 =>
                /\ nbLast.err = "nil"
                /\ nbLast.n >= Min(nbLast.ready, nbLast.lenP)
                /\ nbLast.n <= nbLast.lenP
        /\ (arrived = 0 /\ ~eof) => (nbLast.n = 0 /\ nbLast.err = EAGAIN)

\* readAsync has returned.  Its loop has no return: no step leads here.
Exited == pcA = "exit"

\* A step readAsync can take on its own.
ReadAsyncStep == RecvClosed \/ PeekReturns \/ SendClosed

\* C11: after Close readAsync ends: it does not send on a closed channel, and
\* until it has returned it can take a step of its own, whatever it was doing
\* when Close was called.
C11_ReadAsyncEndsAfterClose ==
    closed =>
        /\ pcA # "panic"
        /\ Exited \/ ENABLED (ReadAsyncStep /\ UNCHANGED notNb)

(***************************************************************************)
(* Properties of pollOneoff.                                               *)
(***************************************************************************)
\* The event of subscription i as its goroutine signalled it.
EventOf(i) == [userData |-> i, errno |-> tasks[i].errno, type |-> subs[i].eventType]

\* The event records the guest is told to read.
Reported == {outBuf[k] : k \in 1..nevents}

\* C12: with valid subscriptions the call returns on the first signal on the
\* result channel, and the signalling subscription's event is among the
\* events it reports.
C12_FirstSignalReported ==
    (pcP = "returned" /\ pollRet.errno = OK) =>
        /\ pollRet.winner \in DOMAIN subs
        /\ tasks[pollRet.winner].pc = "done"
        /\ EventOf(pollRet.winner) \in Reported

\* Subscription c is a relative clock with a timeout above 0.
RelativeClock(c) ==
    subs[c].eventType = "clock" /\ subs[c].flags = 0 /\ subs[c].timeout > 0

\* The file is open and nothing ever becomes ready to read from it.
NeverReady == stdin.open /\ stdin.readByte = "blocks"

\* C13: a relative clock with timeout T > 0 polled together with an fd_read
\* on a stdin that never becomes ready: the call does not return before the
\* clock fires, and the event is the clock's.
C13_ClockWinsOverIdleStdin ==
    \A c, f \in DOMAIN subs :
        (/\ Len(subs) = 2
         /\ RelativeClock(c)
         /\ subs[f].eventType = "fd_read"
         /\ NeverReady
         /\ pcP = "returned")
        => /\ pollRet.winner = c
           /\ now >= subs[c].timeout

(***************************************************************************)
(* Properties of pollNamedPipes and syscall_select.                        *)
(***************************************************************************)
\* pollNamedPipes has returned, and not because of a handle that fails.
PollReturned ==
    /\ selFn = "pollNamedPipes"
    /\ pcS = "returned"
    /\ \A i \in DOMAIN pipes : pipes[i] # "error"

HasData == \E i \in DOMAIN pipes : pipes[i] = "data"

\* C14: with a nil duration pollNamedPipes returns only with a non-zero
\* count of a set that has data, or after the context was cancelled; never
\* because a poll interval went by.
C14_NilDurationWaits ==
    (PollReturned /\ duration = NilDuration) =>
        \/ cancelled
        \/ selRet.n > 0 /\ HasData

\* C15: with a duration d > 0 and no cancellation, pollNamedPipes returns 0
\* only once d has gone by without data, and data that arrived before d makes
\* it return a non-zero count no later than d.
C15_PositiveDuration ==
    (PollReturned /\ duration > 0 /\ ~cancelled) =>
        /\ selRet.n = 0 => selNow >= duration /\ (dataAt = NoData \/ dataAt >= duration)
        /\ (dataAt # NoData /\ dataAt < duration) => selRet.n > 0 /\ selNow <= duration

\* C16: with a zero duration pollNamedPipes never waits, and it returns at
\* once 0 for a set without data and a non-zero count for a set with data.
C16_ZeroDurationProbesOnce ==
    (selFn = "pollNamedPipes" /\ duration = 0) =>
        /\ pcS \in {"start", "returned"}
        /\ selNow = 0
        /\ PollReturned =>
            /\ selRet.errno = OK
            /\ selRet.n = 0 <=> ~HasData
            /\ selRet.n >= 0

C16_Witness ==
    PollReturned /\ duration = 0 /\ HasData /\ selRet.n = Len(pipes) /\ Len(pipes) = MaxPipes

\* syscall_select was called with handles in the read set, none of which
\* fails, and has returned.
SelectReturned ==
    /\ selFn = "syscall_select"
    /\ nfds > 0
    /\ pcS = "returned"
    /\ \A i \in DOMAIN pipes : pipes[i] # "error"

\* C17: syscall_select called with a handle that has data ready returns at
\* least 1 and leaves the handle in the read set; when it returns with no
\* handle ready it returns 0 and the read set is empty.
C17_SelectReportsReadyPipes ==
    SelectReturned =>
        /\ (\E i \in DOMAIN pipes0 : pipes0[i] = "data") =>
                selRet.n >= 1 /\ rCount = Len(pipes0)
        /\ ~HasData => selRet.n = 0 /\ rCount = 0

(***************************************************************************)
(* Properties of the TCP listeners.                                        *)
(***************************************************************************)
\* The step is a SockAccept on a listener in non-blocking mode at which no
\* connection waits.
AcceptsNothingPending ==
    /\ accepts' = accepts + 1
    /\ acceptIn'.listener
    /\ acceptIn'.nonblock
    /\ acceptIn'.pending = 0

\* C18: Accept on a listener in non-blocking mode with no connection pending
\* returns EAGAIN, and SockAccept returns that errno and adds no descriptor
\* to the table.
C18_NonblockingAcceptEAGAIN ==
    [][AcceptsNothingPending =>
        /\ Accept(TRUE, 0) = [returns |-> TRUE, errno |-> EAGAIN]
        /\ last' = Call("SockAccept", EAGAIN, 0)
        /\ openedFiles' = openedFiles
        /\ files' = files]_vars

C18_Witness ==
    /\ accepts > 0
    /\ acceptIn = [listener |-> TRUE, nonblock |-> TRUE, pending |-> 0]
    /\ last = Call("SockAccept", EAGAIN, 0)

(***************************************************************************)
(* Properties of opening.                                                  *)
(***************************************************************************)
\* The step is an FSContext.OpenFile whose flag has O_DIRECTORY together
\* with O_WRONLY or O_RDWR.
OpensDirectoryForWriting ==
    /\ opens' = opens + 1
    /\ "O_DIRECTORY" \in openFlag'
    /\ ("O_WRONLY" \in openFlag' \/ "O_RDWR" \in openFlag')

\* C19: opening with O_DIRECTORY and O_WRONLY or O_RDWR fails with EISDIR
\* without the backing filesystem being asked, and FSContext.OpenFile
\* allocates no descriptor.
C19_DirectoryForWritingEISDIR ==
    [][OpensDirectoryForWriting =>
        /\ last' = Call("OpenFile", EISDIR, 0)
        /\ fsOpens' = fsOpens
        /\ openedFiles' = openedFiles
        /\ files' = files]_vars

C19_Witness ==
    /\ opens > 0
    /\ openFlag = {"O_DIRECTORY", "O_RDWR"}
    /\ last = Call("OpenFile", EISDIR, 0)
    /\ fsOpens = 0

(***************************************************************************)
(* Properties of the ARM64 relocations.                                    *)
(***************************************************************************)
\* The displacement from the call of relocation k to its callee.
Displacement(k) == refToBinaryOffset[relocations[k].FuncRef] - relocations[k].Offset

\* C20: once the relocations are resolved, every call whose displacement to
\* its callee is outside [-2^27, 2^27 - 4] is a BL to a trampoline reserved
\* for that call, past the call itself, which loads the callee's absolute
\* address; the call's field never holds the truncated displacement.
C20_OutOfRangeUsesTrampoline ==
    pcL = "done" =>
        \A k \in DOMAIN relocations :
            OutOfRange(Displacement(k)) =>
                /\ sites[k].form = "bl"
                /\ sites[k].trampolineAt > relocations[k].Offset
                /\ DecodeBL(sites[k].field) = sites[k].trampolineAt - relocations[k].Offset
                /\ sites[k].loads = Base + refToBinaryOffset[relocations[k].FuncRef]
                /\ sites[k].field # EncodeBL(Displacement(k))

(***************************************************************************)
(* Properties of a call resolved and run.                                  *)
(***************************************************************************)
\* C21: a call that went through its trampoline enters the callee with the
\* link register holding the address after the call site, and after the
\* callee's return the trampoline is not run again.
C21_TrampolineKeepsLinkRegister ==
    thru =>
        /\ (phase = "run" /\ rets = 0 /\ pc = calleeAt) => lr = callSite + 4
        /\ rets > 0 => ~InTrampoline(pc)

\* C22: after ResolveRelocations a call site whose displacement to the
\* callee is within the BL range holds a BL whose immediate, sign-extended
\* and times 4, is callee offset - call site offset.
C22_InRangeSiteIsBLToCallee ==
    (phase # "link" /\ ~OutOfRange(calleeAt - callSite)) =>
        /\ code[callSite].op = "bl"
        /\ DecodeBL(code[callSite].a) = calleeAt - callSite

(***************************************************************************)
(* Properties of closing a socket file.                                    *)
(***************************************************************************)
\* C23: however often Close or Shutdown(SHUT_RDWR) is called on a socket
\* file, the OS socket is closed or shut down exactly once, by the first
\* call; every later call returns 0.
C23_SocketClosedOnce ==
    closeCalls > 0 =>
        /\ sock.osCloses = 1
        /\ closeCalls > 1 => closeRet = OK

(***************************************************************************)
(* Properties of Label.ID.                                                 *)
(***************************************************************************)
\* C24: Label.ID is injective: two labels have the same LabelID if and only
\* if they have the same kind and the same frame ID.
C24_LabelIDInjective ==
    labelIDs # <<>> =>
        ((labelIDs[1] = labelIDs[2])
            <=> (labelA.Kind = labelB.Kind /\ labelA.FrameID = labelB.FrameID))

\* Two labels of the same kind with the smallest and the largest frame ID
\* got different IDs.
C24_Witness ==
    /\ labelIDs # <<>>
    /\ labelA.Kind = labelB.Kind
    /\ labelA.FrameID = {}
    /\ labelB.FrameID = 0..31
    /\ labelIDs[1] # labelIDs[2]

(***************************************************************************)
(* Properties of Renumber, CloseFile and SockAccept.                       *)
(***************************************************************************)
\* The step is the call Renumber(from, to) and it returned errno.
Renumbered(from, to, errno) == Renumber(from, to) /\ last'.errno = errno

\* The entries at the descriptors outside s are what they were.
OthersKept(s) ==
    \A fd \in (DOMAIN openedFiles \cup DOMAIN openedFiles') \ s :
        /\ fd \in DOMAIN openedFiles
        /\ fd \in DOMAIN openedFiles'
        /\ openedFiles'[fd] = openedFiles[fd]

\* C25: after a successful Renumber(from, to) with from # to, descriptor `to`
\* holds the entry that was at `from`, `from` is not open, the file that was
\* at `to`, if any, has been closed, and no other descriptor and no other
\* file has changed.
C25_RenumberMoves ==
    [][(last'.op = "Renumber") => \A from \in DescFds, to \in {-1} \cup DescFds :
          (from # to /\ Renumbered(from, to, OK)) =>
              /\ Lookup(openedFiles', to)
              /\ openedFiles'[to] = openedFiles[from]
              /\ ~Lookup(openedFiles', from)
              /\ OthersKept({from, to})
              /\ \A id \in 1..Len(files) :
                     files'[id].closes =
                         IF Lookup(openedFiles, to) /\ openedFiles[to].File = id
                         THEN files[id].closes + 1
                         ELSE files[id].closes]_vars

\* Renumber has moved an opened file onto the descriptor of another, which
\* is closed and in the table no more.
C25_Witness ==
    /\ last.op = "Renumber" /\ last.errno = OK
    /\ \E fd \in DOMAIN openedFiles :
           /\ ~openedFiles[fd].IsPreopen
           /\ files[openedFiles[fd].File].closes = 0
           /\ \E id \in 1..Len(files) :
                  /\ id > openedFiles[fd].File
                  /\ files[id].closes = 1
                  /\ ~InTable(id)

\* A pre-open is open at the descriptor.
PreopenAt(fd) == Lookup(openedFiles, fd) /\ openedFiles[fd].IsPreopen

\* The call returned errno and left both tables and every file as they were.
Refused(errno) ==
    /\ last'.errno = errno
    /\ UNCHANGED <<openedFiles, readdirs, files>>

\* CloseFile of a descriptor that is not open returns EBADF and changes
\* nothing.
CloseFileRefuses ==
    \A fd \in DescFds :
        (CloseFile(fd) /\ ~Lookup(openedFiles, fd)) => Refused(EBADF)

\* C26 as stated: CloseFile of a descriptor that is not open returns EBADF;
\* Renumber returns EBADF when `from` is not open or `to` is negative, and
\* ENOTSUP when `from` or `to` is a pre-open; in each case both tables are
\* unchanged and no file is closed.
C26_RefusalsAnyOrder ==
    [][(last'.op \in {"CloseFile", "Renumber"}) =>
          /\ CloseFileRefuses
          /\ \A from \in DescFds, to \in {-1} \cup DescFds :
                 Renumber(from, to) =>
                     /\ (~Lookup(openedFiles, from) \/ to < 0) => Refused(EBADF)
                     /\ (PreopenAt(from) \/ PreopenAt(to)) => Refused(ENOTSUP)]_vars

\* C26 as amended: the same, with ENOTSUP returned when `from` is open, `to`
\* is not negative and `from` or `to` is a pre-open: EBADF comes first.
C26_Refusals ==
    [][(last'.op \in {"CloseFile", "Renumber"}) =>
          /\ CloseFileRefuses
          /\ \A from \in DescFds, to \in {-1} \cup DescFds :
                 Renumber(from, to) =>
                     /\ (~Lookup(openedFiles, from) \/ to < 0) => Refused(EBADF)
                     /\ (/\ Lookup(openedFiles, from)
                         /\ to >= 0
                         /\ PreopenAt(from) \/ PreopenAt(to)) => Refused(ENOTSUP)]_vars

\* Renumber has refused with ENOTSUP while a file that is no pre-open was
\* open, next to the pre-opens.
C26_Witness ==
    /\ last.op = "Renumber" /\ last.errno = ENOTSUP
    /\ \E fd \in DOMAIN openedFiles :
           ~openedFiles[fd].IsPreopen /\ files[openedFiles[fd].File].closes = 0
    /\ \E fd \in DOMAIN openedFiles : openedFiles[fd].IsPreopen

\* A pre-opened TCP listener is open at the descriptor.
ListenerAt(fd) == PreopenAt(fd) /\ files[openedFiles[fd].File].type = "listener"

\* The accepted connection: the file made last.
Accepted == Len(files')

\* The call made one file, the accepted connection, closed as often as given,
\* and left the others as they were.
OneAccepted(closes) ==
    /\ Accepted = Len(files) + 1
    /\ files'[Accepted] = [type |-> "conn", closes |-> closes]
    /\ \A id \in 1..Len(files) : files'[id] = files[id]

\* C27: SockAccept returns EBADF unless sockFD is a pre-opened TCP listener;
\* when Accept fails, or SetNonblock on the accepted connection fails, it
\* returns that errno, the accepted connection, if any, is closed and no
\* descriptor is added; on success the connection is entered at a descriptor
\* that was free.
C27_SockAccept ==
    [][(last'.op = "SockAccept") =>
          \A sockFD \in DescFds, nonblock \in BOOLEAN, acceptErrno \in {OK, EAGAIN},
             nonblockErrno \in {OK, EBADF} :
              SockAccept(sockFD, nonblock, acceptErrno, nonblockErrno) =>
                  IF ~ListenerAt(sockFD) THEN Refused(EBADF)
                  ELSE IF acceptErrno # OK THEN Refused(acceptErrno)
                  ELSE IF nonblock /\ nonblockErrno # OK
                  THEN /\ last'.errno = nonblockErrno
                       /\ UNCHANGED <<openedFiles, readdirs>>
                       /\ OneAccepted(1)
                  ELSE /\ last'.errno = OK
                       /\ ~Lookup(openedFiles, last'.newFD)
                       /\ Lookup(openedFiles', last'.newFD)
                       /\ openedFiles'[last'.newFD].File = Accepted
                       /\ OthersKept({last'.newFD})
                       /\ OneAccepted(0)
                       /\ UNCHANGED readdirs]_vars

\* SockAccept has entered a connection in the table, after another whose
\* SetNonblock failed was closed and not entered.
C27_Witness ==
    /\ last.op = "SockAccept" /\ last.errno = OK
    /\ Lookup(openedFiles, last.newFD)
    /\ files[openedFiles[last.newFD].File] = [type |-> "conn", closes |-> 0]
    /\ \E id \in 1..Len(files) :
           /\ files[id] = [type |-> "conn", closes |-> 1]
           /\ ~InTable(id)

(***************************************************************************)
(* Properties of windowedReaddir.Skip and Advance.                         *)
(***************************************************************************)
\* C28: windowedReaddir.Skip(n) terminates, for every n and every directory:
\* a call that has begun returns.
C28_SkipTerminates == (skPc # "idle") ~> (skPc = "idle")

\* The step is a call of windowedReaddir.Advance.
AdvanceStep == skPc = "advance" /\ skPc' = "test"

\* C29: whenever windowedReaddir.Advance returns 0 the cursor has moved
\* forward by exactly one entry, Cookie() being one more than it was; when
\* the cursor does not move, Advance returns a non-zero errno.
C29_AdvanceMovesByOne ==
    [][AdvanceStep =>
          /\ skErr' = OK => WindowedCookie(skDir') = WindowedCookie(skDir) + 1
          /\ WindowedCookie(skDir') = WindowedCookie(skDir) => skErr' # OK]_vars

(***************************************************************************)
(* Properties of the readdir cursors kept by descriptor.                   *)
(***************************************************************************)
\* C30: at all times the readdir cursor kept for a descriptor is the cursor
\* of the file open at that descriptor: not one made for a file that has
\* since been moved away or closed.
C30_CursorOfOpenFile ==
    \A idx \in DOMAIN readdirs :
        /\ Lookup(openedFiles, idx)
        /\ openedFiles[idx].File = readdirs[idx]

(***************************************************************************)
(* Properties of Reset and Rewind on the cursor LookupReaddir returns.     *)
(***************************************************************************)
\* C31: after Reset on the concatenated cursor, Cookie() is 0 and the next
\* Peek returns the first entry, ".", however far the cursor had advanced.
C31_ResetToDot ==
    [][(rdLast'.op = "Reset") =>
          /\ rdLast'.errno = OK
          /\ Cookie' = 0
          /\ ConcatPeek(dirSize, Cursor').dirent = Dot
          /\ ConcatPeek(dirSize, Cursor').errno = OK]_vars

\* C32: a Rewind that returns a non-zero errno leaves the cursor unchanged:
\* Cookie() and the entry the next Peek returns are what they were before
\* the call.
C32_FailedRewindKeepsCursor ==
    [][(rdLast'.op = "Rewind" /\ rdLast'.errno # OK) =>
          /\ Cookie' = Cookie
          /\ ConcatPeek(dirSize, Cursor').dirent = ConcatPeek(dirSize, Cursor).dirent
          /\ ConcatPeek(dirSize, Cursor').errno = ConcatPeek(dirSize, Cursor).errno]_vars

(***************************************************************************)
(* Properties of the bytes nbreader.Read delivers.                         *)
(***************************************************************************)
\* The step is a Read returning bytes: they are the first nbLast'.n bytes
\* the underlying reader's buffer holds, those after the first `consumed`
\* bytes of the stream.
ReadDelivers == pcR = "send2" /\ nbLast'.op = "Read" /\ nbLast'.n > 0

\* C33: successive successful Reads return consecutive portions of the
\* stream that do not overlap: the bytes a Read returns are taken out of the
\* stream, so that the next Read begins just after them.
C33_ReadsConsecutive ==
    [][ReadDelivers => consumed' = consumed + nbLast'.n]_vars

(***************************************************************************)
(* Properties of the goroutines and of the event record of pollOneoff.     *)
(***************************************************************************)
\* Goroutine i is at its send on resultChannel.  Only pollOneoffFn receives
\* from the channel, once, before it returns: after the return a goroutine
\* at its send stays there.
BlockedSending(i) == pcP = "returned" /\ tasks[i].pc = "send"

\* C34: every goroutine pollOneoff started ends after the call has returned,
\* those that did not win and those started before a later subscription was
\* refused with EINVAL too: none stays blocked in its send on the result
\* channel.
C34_NoTaskBlockedSending == \A i \in DOMAIN tasks : ~BlockedSending(i)

\* C35: the event record written for the winning subscription has that
\* subscription's userdata, errno and event type in its own slot of `out`,
\* and nothing of `out` outside that slot is modified.
C35_EventInOwnSlot ==
    (pcP = "returned" /\ pollRet.errno = OK) =>
        /\ outBuf[pollRet.winner] = EventOf(pollRet.winner)
        /\ \A k \in DOMAIN outBuf : k # pollRet.winner => outBuf[k] = StaleEvent

(***************************************************************************)
(* Properties of tcpConnFile.Write.                                        *)
(***************************************************************************)
\* C36: tcpConnFile.Write returns a non-zero errno whenever the underlying
\* write fails, and errno 0 only when the bytes were written.
C36_WriteReportsFailure ==
    tcLast.op = "Write" =>
        /\ tcLast.sysErr # OK => tcLast.errno # OK
        /\ tcLast.errno = OK => (tcLast.sysErr = OK /\ tcLast.n = tcLast.sysN /\ tcLast.n >= 0)

(***************************************************************************)
(* Properties of FdSet.                                                    *)
(***************************************************************************)
\* C37: on a set holding fewer than 64 handles IsSet(fd) is true after
\* Set(fd) and false after Clear(fd), for every handle, socket or not.
C37_IsSetAfterSetAndClear ==
    /\ fdLast.op = "Set" => FdSetIsSet(fdSet, fdLast.fd)
    /\ fdLast.op = "Clear" => ~FdSetIsSet(fdSet, fdLast.fd)

(***************************************************************************)
(* Properties of fsFile.Pread.                                             *)
(***************************************************************************)
\* C38: Pread through the io.ReadSeeker fallback leaves the read position
\* of the file where it was, whether the positioned read succeeded or failed.
C38_PreadKeepsPosition ==
    [][(prKind = "readSeeker" /\ prLast'.op = "Pread") => prPos' = prPos]_vars

\* A positioned read through the fallback away from a read position that is
\* not 0 has returned bytes; another has failed.
C38_PreadAwayFromPosition ==
    /\ prKind = "readSeeker"
    /\ prLast.op = "Pread"
    /\ prPos > 0
    /\ prLast.off # prPos
    /\ prLast.n > 0
    /\ prLast.errno = OK

(***************************************************************************)
(* Properties of utimens.                                                  *)
(***************************************************************************)
\* C39: utimens passes AT_SYMLINK_NOFOLLOW exactly when symlinkFollow is
\* false, on Linux and on Darwin alike: the symbolic link itself is updated
\* only when the caller asked not to follow it.
C39_NoFollowWhenNotFollowing ==
    [][(utLast'.op = "utimens") =>
          /\ (utLast'.flags = AtSymlinkNoFollow(utOS)) <=> ~utLast'.symlinkFollow
          /\ utTimes'.link # utTimes.link => ~utLast'.symlinkFollow]_vars

====
